---- MODULE Spec2Model ----
(***************************************************************************)
(* Scoring engine of the rogaining game (src/src/logic/game.ts): the       *)
(* check-in state machine over one GameProgress snapshot.                  *)
(*                                                                         *)
(* Conventions of the model                                                *)
(*  - An optional field (boardedStationId?, cooldownUntilMs?, endedAtMs?,  *)
(*    endReason?, lastLocation?, Category?) is <<>> when undefined and     *)
(*    <<v>> when it holds v; Truthy is JavaScript's truthiness.            *)
(*  - Coordinates are whole metres (lat = northing, lng = easting) in a    *)
(*    local tangent plane.  Distances are kept squared so that they stay   *)
(*    integers; every comparison of a distance against a threshold or      *)
(*    against another distance is made on the squares, which orders        *)
(*    non-negative numbers exactly as the distances themselves.            *)
(*  - An ID string is ordered by its place in Collation, the order         *)
(*    String.prototype.localeCompare gives the IDs of the master data.     *)
(*  - Array.from(new Set(a)) keeps insertion order, so the id "sets" of a  *)
(*    snapshot are sequences without repetition.                           *)
(***************************************************************************)
EXTENDS Integers, Sequences, FiniteSets, TLC

\* ------------------------------------------------------------------------
\* Constants of game.ts
\* ------------------------------------------------------------------------
CHECKIN_RADIUS_M == 50

DENSE_SPOT_DISTANCE_M == 3

MAX_ACCURACY_M == 100

JR_COOLDOWN_SEC == 60

\* Category string of a station-tagged spot ('駅' in the source).
STATION_CATEGORY == "EKI"

\* ------------------------------------------------------------------------
\* Bounds of the model
\* ------------------------------------------------------------------------
\* Date.now() at startNewGame (positive, as every real clock reading is).
T0 == 1000000

\* calcPenalty is applied to goal times up to this many minutes after the
\* start.
MaxGoalMin == 200

\* The clock stops advancing MaxElapsedSteps half-minutes after T0.
MaxElapsedSteps == 6

\* Longest visitedStationEvents log explored.
MaxEvents == 4

\* The clock advances in halves of the JR cooldown.
StepMs == (JR_COOLDOWN_SEC * 1000) \div 2

MaxNow == T0 + MaxElapsedSteps * StepMs

\* ------------------------------------------------------------------------
\* JavaScript helpers
\* ------------------------------------------------------------------------
Undefined == <<>>

Some(v) == <<v>>

\* A number field holding NaN (Number('abc')): a second component marks the
\* value as not finite.
NaN == << 0, "NaN" >>
\* isFinite(x) for a present number field.
isFinite(x) == Len(x) = 1

\* if (x) for an optional number: undefined and 0 are falsy.
Truthy(x) == x # <<>> /\ x[1] # 0

\* if (x) for an optional string: undefined and '' are falsy.
TruthyStr(x) == x # <<>> /\ x[1] # ""

Sq(n) == n * n

SeqToSet(s) == { s[i] : i \in 1..Len(s) }

\* Array.prototype.includes
Includes(s, v) == \E i \in 1..Len(s) : s[i] = v

\* Array.from(new Set(a)) followed by set.add(v): v goes last when new.
SetAdd(s, v) == IF Includes(s, v) THEN s ELSE Append(s, v)

\* Collation order of all ID strings of the master data (localeCompare).
Collation == << "J03", "J04", "J05", "J06", "S01", "S02", "S03", "S04" >>

Rank(id) == CHOOSE i \in 1..Len(Collation) : Collation[i] = id

\* a.localeCompare(b): negative, zero or positive.
localeCompare(a, b) == Rank(a) - Rank(b)

\* ------------------------------------------------------------------------
\* Geo utility (utils/geo): squared great-circle distance, in m^2
\* ------------------------------------------------------------------------
LatLng(lat, lng) == [lat |-> lat, lng |-> lng]

haversineMetersSq(a, b) == Sq(a.lat - b.lat) + Sq(a.lng - b.lng)

\* ------------------------------------------------------------------------
\* Master data (types.ts): Spot and Station records, and the worlds played
\* ------------------------------------------------------------------------
\* Every spot and station of these worlds is named by its ID.
Spot(id, lat, lng, score, cat) ==
  [ID |-> id, Name |-> id, Latitude |-> lat, Longitude |-> lng,
   Score |-> score, Category |-> cat]

Station(id, idx, lat, lng, score) ==
  [stationId |-> id, name |-> id, orderIndex |-> idx, lat |-> lat,
   lng |-> lng, score |-> score]

\* A location fix: where the player stands and the accuracy reported.
LocationFix(lat, lng, accuracy) ==
  [lat |-> lat, lng |-> lng, accuracy |-> accuracy]

\* Three spots at 10 m of the origin (two of equal Score), one farther away.
WorldTie ==
  [name |-> "tie",
   judgeSpots |-> << Spot("S03", 0, 10, 20, Some("KANKO")),
                     Spot("S02", 0, -10, 20, Undefined),
                     Spot("S04", -10, 0, 50, Some("KANKO")),
                     Spot("S01", 20, 0, 30, Some(STATION_CATEGORY)) >>,
   stations |-> <<>>,
   fixes |-> { LocationFix(0, 0, MAX_ACCURACY_M),
               LocationFix(5, 0, MAX_ACCURACY_M),
               LocationFix(60, 0, MAX_ACCURACY_M) },
   goal |-> LatLng(100, 0),
   jr |-> { FALSE },
   cpChoices |-> { << "S04", "S03" >> }]

\* A chain S01 - S02 - S03 with 3 m links, and a lone spot S04 that is nearer
\* to the origin than S03.
WorldCluster ==
  [name |-> "cluster",
   judgeSpots |-> << Spot("S01", 5, 0, 10, Some("KANKO")),
                     Spot("S02", 8, 0, 20, Some("KANKO")),
                     Spot("S03", 11, 0, 30, Some("KANKO")),
                     Spot("S04", -10, 0, 40, Undefined) >>,
   stations |-> <<>>,
   fixes |-> { LocationFix(0, 0, 20),
               LocationFix(58, 0, 20),
               LocationFix(61, 0, 20) },
   goal |-> LatLng(61, 0),
   jr |-> { FALSE },
   cpChoices |-> { << "S02" >> }]

\* From the origin S02 is 50.09 m away and lies within 3 m of both S01
\* (50 m away) and S03 (49.3 m away), which are 5.1 m apart.  The only
\* station is out of reach of every fix.
WorldBridge ==
  [name |-> "bridge",
   judgeSpots |-> << Spot("S01", 0, 50, 10, Some("KANKO")),
                     Spot("S02", 3, 50, 20, Some("KANKO")),
                     Spot("S03", 5, 49, 30, Some("KANKO")) >>,
   stations |-> << Station("J03", 3, 0, 200, Some(5)) >>,
   fixes |-> { LocationFix(0, 0, MAX_ACCURACY_M),
               LocationFix(0, 40, 20),
               LocationFix(0, 101, MAX_ACCURACY_M),
               LocationFix(0, 40, MAX_ACCURACY_M + 1) },
   goal |-> LatLng(0, 0),
   jr |-> { TRUE },
   cpChoices |-> { <<>>, << "S03" >> }]

\* A rail line J03..J06.  J03 and J04 are both 10 m from (0, 0); from
\* (0, 200) J06 is 5 m and J05 20 m away, and the spot S02 and the goal are
\* exactly 50 m away.
WorldLine ==
  [name |-> "line",
   judgeSpots |-> << Spot("S02", 0, 150, 20, Some("KANKO")),
                     Spot("S01", 0, 0, 10, Some(STATION_CATEGORY)) >>,
   stations |-> << Station("J03", 3, 0, 10, Some(5)),
                   Station("J04", 4, 0, -10, Undefined),
                   Station("J05", 5, 0, 180, Some(7)),
                   Station("J06", 6, 0, 205, Some(9)) >>,
   fixes |-> { LocationFix(0, 0, MAX_ACCURACY_M),
               LocationFix(0, 200, MAX_ACCURACY_M),
               LocationFix(0, 200, MAX_ACCURACY_M + 1) },
   goal |-> LatLng(0, 250),
   jr |-> { TRUE },
   cpChoices |-> { << "S02" >> }]

Worlds == { WorldTie, WorldCluster, WorldBridge, WorldLine }

\* A rail line J03..J06 with stations 100 m apart, of which J03, J04 and J06
\* can be boarded.  J04 has a negative score and J05 a score that did not
\* parse.  The other master lacks J04.  Calls are made half a second
\* before a cooldown ends as well as when it ends.
WorldRail ==
  [name |-> "rail",
   judgeSpots |-> <<>>,
   stations |-> << Station("J03", 3, 0, 0, Some(5)),
                   Station("J04", 4, 0, 100, Some(-7)),
                   Station("J05", 5, 0, 200, NaN),
                   Station("J06", 6, 0, 300, Some(9)) >>,
   reimported |-> << Station("J03", 3, 0, 0, Some(5)),
                     Station("J05", 5, 0, 200, NaN),
                     Station("J06", 6, 0, 300, Some(9)) >>,
   fixes |-> { LocationFix(0, 0, 20),
               LocationFix(0, 100, 20),
               LocationFix(0, 300, 20) },
   steps |-> { 0, JR_COOLDOWN_SEC * 1000 - 500, JR_COOLDOWN_SEC * 1000 },
   goal |-> LatLng(0, 1000),
   jr |-> { TRUE },
   cpChoices |-> { <<>> }]

\* ------------------------------------------------------------------------
\* Candidate selection (game.ts)
\* ------------------------------------------------------------------------
\* spots.map(s => ({spot, dist})).filter(x => x.dist <= CHECKIN_RADIUS_M)
listSpotCandidatesWithinRadius(spots, loc) ==
  LET mapped == [i \in 1..Len(spots) |->
                   [spot |-> spots[i],
                    dist |-> haversineMetersSq(loc,
                               LatLng(spots[i].Latitude, spots[i].Longitude))]]
      inRadius(x) == x.dist <= Sq(CHECKIN_RADIUS_M)
  IN SelectSeq(mapped, inRadius)

\* Faulty variant of spotCompare: the last tie-break compares the IDs the other way.
spotCompare_IdDescending(a, b) ==
  IF a.dist # b.dist THEN a.dist - b.dist
  ELSE IF a.spot.Score # b.spot.Score THEN b.spot.Score - a.spot.Score
  ELSE localeCompare(b.spot.ID, a.spot.ID)

\* Comparator of the candidate sorts: nearest, then higher Score, then ID.
spotCompare(a, b) ==
  IF a.dist # b.dist THEN a.dist - b.dist
  ELSE IF a.spot.Score # b.spot.Score THEN b.spot.Score - a.spot.Score
  ELSE localeCompare(a.spot.ID, b.spot.ID)

\* Faulty variant of stationCompare: the stationId decides before the distance.
stationCompare_IdFirst(a, b) ==
  IF a.st.stationId # b.st.stationId
    THEN localeCompare(a.st.stationId, b.st.stationId)
  ELSE a.d - b.d

\* Comparator of the station sort: nearest, then stationId.
stationCompare(a, b) ==
  IF a.d # b.d THEN a.d - b.d
  ELSE localeCompare(a.st.stationId, b.st.stationId)

\* The comparator handed to Array.prototype.sort, by name.
compare(cmp, a, b) ==
  IF cmp = "spot" THEN spotCompare(a, b) ELSE stationCompare(a, b)

\* Array.prototype.sort with comparator cmp (stable insertion sort).
RECURSIVE InsertSorted(_, _, _)
InsertSorted(x, s, cmp) ==
  IF s = <<>> THEN << x >>
  ELSE IF compare(cmp, x, Head(s)) < 0 THEN << x >> \o s
  ELSE << Head(s) >> \o InsertSorted(x, Tail(s), cmp)

RECURSIVE ArraySort(_, _)
ArraySort(s, cmp) ==
  IF s = <<>> THEN <<>>
  ELSE InsertSorted(s[Len(s)], ArraySort(SubSeq(s, 1, Len(s) - 1), cmp), cmp)

\* coords.get(id): the Map keeps the last entry written for a key.
coordsGet(candidates, id) ==
  LET idxs == { i \in 1..Len(candidates) : candidates[i].spot.ID = id }
      last == CHOOSE i \in idxs : \A j \in idxs : j <= i
  IN LatLng(candidates[last].spot.Latitude, candidates[last].spot.Longitude)

\* for (const other of candidates) { ... } of the flood fill, from index i:
\* returns the cluster and the queue after the scan.
RECURSIVE scanOthers(_, _, _, _, _, _)
scanOthers(i, curLoc, candidates, visitedCluster, queue, denseThresholdM) ==
  IF i > Len(candidates) THEN [visitedCluster |-> visitedCluster, queue |-> queue]
  ELSE
    LET oid == candidates[i].spot.ID
        oLoc == coordsGet(candidates, oid)
    IN IF oid \in visitedCluster
         THEN scanOthers(i + 1, curLoc, candidates, visitedCluster, queue,
                         denseThresholdM)
       ELSE IF haversineMetersSq(curLoc, oLoc) <= Sq(denseThresholdM)
         THEN scanOthers(i + 1, curLoc, candidates,
                         visitedCluster \cup { oid }, Append(queue, oid),
                         denseThresholdM)
       ELSE scanOthers(i + 1, curLoc, candidates, visitedCluster, queue,
                       denseThresholdM)

\* while (queue.length) { const cur = queue.shift(); ... }
RECURSIVE floodFill(_, _, _, _)
floodFill(queue, visitedCluster, candidates, denseThresholdM) ==
  IF queue = <<>> THEN visitedCluster
  ELSE
    LET cur == Head(queue)
        r == scanOthers(1, coordsGet(candidates, cur), candidates,
                        visitedCluster, Tail(queue), denseThresholdM)
    IN floodFill(r.queue, r.visitedCluster, candidates, denseThresholdM)

\* The candidates of a spot check-in, sorted: the first is the base candidate.
sortedSpotCandidates(judgeSpots, loc) ==
  ArraySort(listSpotCandidatesWithinRadius(judgeSpots, loc), "spot")

\* Faulty variant of pickSpotCandidateWithDenseCluster: the nearest member of
\* the cluster is taken, visited or not.
pickSpotCandidateWithDenseCluster_NearestMember(progress, loc, judgeSpots, denseThresholdM) ==
  LET candidates == sortedSpotCandidates(judgeSpots, loc)
  IN IF candidates = <<>> THEN Undefined
     ELSE
       LET base == candidates[1]
           visitedCluster == floodFill(<< base.spot.ID >>, { base.spot.ID },
                                       candidates, denseThresholdM)
       IN IF Cardinality(visitedCluster) <= 1 THEN Some(base)
          ELSE
            LET visitedSpotIds == SeqToSet(progress.visitedSpotIds)
                inCluster(c) == c.spot.ID \in visitedCluster
                notVisited(c) == c.spot.ID \notin visitedSpotIds
                clusterCandidates == SelectSeq(candidates, inCluster)
                unvisited == SelectSeq(clusterCandidates, notVisited)
                pool == clusterCandidates
                sorted == ArraySort(pool, "spot")
            IN IF sorted # <<>> THEN Some(sorted[1]) ELSE Some(base)

\* Faulty variant of pickSpotCandidateWithDenseCluster: the flood fill walks all judge
\* spots, so a spot beyond the radius can link two candidates.
pickSpotCandidateWithDenseCluster_FillsAllSpots(progress, loc, judgeSpots, denseThresholdM) ==
  LET candidates == sortedSpotCandidates(judgeSpots, loc)
      allSpots == [i \in 1..Len(judgeSpots) |->
                     [spot |-> judgeSpots[i],
                      dist |-> haversineMetersSq(loc,
                                 LatLng(judgeSpots[i].Latitude,
                                        judgeSpots[i].Longitude))]]
  IN IF candidates = <<>> THEN Undefined
     ELSE
       LET base == candidates[1]
           visitedCluster == floodFill(<< base.spot.ID >>, { base.spot.ID },
                                       allSpots, denseThresholdM)
       IN IF Cardinality(visitedCluster) <= 1 THEN Some(base)
          ELSE
            LET visitedSpotIds == SeqToSet(progress.visitedSpotIds)
                inCluster(c) == c.spot.ID \in visitedCluster
                notVisited(c) == c.spot.ID \notin visitedSpotIds
                clusterCandidates == SelectSeq(candidates, inCluster)
                unvisited == SelectSeq(clusterCandidates, notVisited)
                pool == IF unvisited # <<>> THEN unvisited ELSE clusterCandidates
                sorted == ArraySort(pool, "spot")
            IN IF sorted # <<>> THEN Some(sorted[1]) ELSE Some(base)

\* The target of a spot check-in; Undefined stands for null.
pickSpotCandidateWithDenseCluster(progress, loc, judgeSpots, denseThresholdM) ==
  LET candidates == sortedSpotCandidates(judgeSpots, loc)
  IN IF candidates = <<>> THEN Undefined
     ELSE
       LET base == candidates[1]
           visitedCluster == floodFill(<< base.spot.ID >>, { base.spot.ID },
                                       candidates, denseThresholdM)
       IN IF Cardinality(visitedCluster) <= 1 THEN Some(base)
          ELSE
            LET visitedSpotIds == SeqToSet(progress.visitedSpotIds)
                inCluster(c) == c.spot.ID \in visitedCluster
                notVisited(c) == c.spot.ID \notin visitedSpotIds
                clusterCandidates == SelectSeq(candidates, inCluster)
                unvisited == SelectSeq(clusterCandidates, notVisited)
                pool == IF unvisited # <<>> THEN unvisited ELSE clusterCandidates
                sorted == ArraySort(pool, "spot")
            IN IF sorted # <<>> THEN Some(sorted[1]) ELSE Some(base)

\* The station of a board or alight check-in; Undefined stands for null.
pickStationWithinRadius(stations, loc) ==
  LET mapped == [i \in 1..Len(stations) |->
                   [st |-> stations[i],
                    d |-> haversineMetersSq(loc,
                            LatLng(stations[i].lat, stations[i].lng))]]
      inRadius(x) == x.d <= Sq(CHECKIN_RADIUS_M)
      cs == SelectSeq(mapped, inRadius)
  IN IF cs = <<>> THEN Undefined ELSE Some(ArraySort(cs, "station")[1])

\* ------------------------------------------------------------------------
\* Scoring engine (game.ts)
\* ------------------------------------------------------------------------
\* utils/time: whole minutes of a duration in ms, seconds truncated.
floorMinutesFromMs(ms) == ms \div 60000

\* Faulty variant of calcPenalty: a goal at the planned end is late by a
\* minute already.
calcPenalty_PlannedEndIsLate(startedAtMs, durationMin, goalAtMs) ==
  LET plannedEnd == startedAtMs + durationMin * 60000
      earlyThreshold == plannedEnd - 15 * 60000
  IN IF goalAtMs < earlyThreshold
       THEN floorMinutesFromMs(earlyThreshold - goalAtMs)
     ELSE IF goalAtMs >= plannedEnd
       THEN 1 + floorMinutesFromMs(goalAtMs - plannedEnd)
     ELSE 0

\* Faulty variant of calcPenalty: the 15 minutes before the planned end are
\* penalised as well.
calcPenalty_NoGrace(startedAtMs, durationMin, goalAtMs) ==
  LET plannedEnd == startedAtMs + durationMin * 60000
  IN IF goalAtMs < plannedEnd
       THEN floorMinutesFromMs(plannedEnd - goalAtMs)
     ELSE IF goalAtMs > plannedEnd
       THEN floorMinutesFromMs(goalAtMs - plannedEnd)
     ELSE 0

calcPenalty(startedAtMs, durationMin, goalAtMs) ==
  LET plannedEnd == startedAtMs + durationMin * 60000
      earlyThreshold == plannedEnd - 15 * 60000
  IN IF goalAtMs < earlyThreshold
       THEN floorMinutesFromMs(earlyThreshold - goalAtMs)
     ELSE IF goalAtMs > plannedEnd
       THEN floorMinutesFromMs(goalAtMs - plannedEnd)
     ELSE 0

\* startNewGame at clock reading t.
startNewGame(resolvedConfig, cpSpotIds, t) ==
  [startedAtMs |-> t,
   config |-> resolvedConfig,
   cpSpotIds |-> cpSpotIds,
   reachedCpIds |-> <<>>,
   visitedSpotIds |-> <<>>,
   visitedStationEvents |-> <<>>,
   usedStationIds |-> <<>>,
   scoredStationIds |-> <<>>,
   score |-> 0,
   penalty |-> 0,
   boardedStationId |-> Undefined,
   cooldownUntilMs |-> Undefined,
   endedAtMs |-> Undefined,
   endReason |-> Undefined,
   lastLocation |-> Undefined]

\* { ok: false, code, message }; message holds the values interpolated into
\* the text (<<>> for a fixed text).
Fail(code, message) == [ok |-> FALSE, code |-> code, message |-> message]

\* { ok: true, kind, message, progress }
Ok(kind, message, next) ==
  [ok |-> TRUE, kind |-> kind, message |-> message, progress |-> next]

\* `accuracyが大きすぎます（${Math.round(accuracy)}m）...`
AccuracyTooBad(accuracy) ==
  Fail("ACCURACY_TOO_BAD", [accuracy |-> accuracy])

Fix(loc, accuracy, t) ==
  Some([lat |-> loc.lat, lng |-> loc.lng, accuracy |-> accuracy, atMs |-> t])

\* Faulty variant of checkInTarget: every spot checked in counts as a
\* checkpoint reached.
checkInTarget_ReachesEverySpot(progress, spot, loc, accuracy, t) ==
  IF TruthyStr(progress.boardedStationId)
     /\ spot.Category # Some(STATION_CATEGORY)
    THEN Fail("IN_TRAIN", <<>>)
  ELSE
    LET isCp == Includes(progress.cpSpotIds, spot.ID)
        add == IF Includes(progress.visitedSpotIds, spot.ID)
                 THEN 0 ELSE spot.Score
        next == [progress EXCEPT
                   !.visitedSpotIds = SetAdd(@, spot.ID),
                   !.reachedCpIds = SetAdd(@, spot.ID),
                   !.score = @ + add,
                   !.lastLocation = Fix(loc, accuracy, t)]
    IN Ok(IF isCp THEN "CP" ELSE "SPOT",
          [name |-> spot.Name, add |-> add], next)

\* Faulty variant of checkInTarget: the Score is credited on every check-in.
checkInTarget_AlwaysCredits(progress, spot, loc, accuracy, t) ==
  IF TruthyStr(progress.boardedStationId)
     /\ spot.Category # Some(STATION_CATEGORY)
    THEN Fail("IN_TRAIN", <<>>)
  ELSE
    LET isCp == Includes(progress.cpSpotIds, spot.ID)
        add == spot.Score
        next == [progress EXCEPT
                   !.visitedSpotIds = SetAdd(@, spot.ID),
                   !.reachedCpIds = IF isCp THEN SetAdd(@, spot.ID) ELSE @,
                   !.score = @ + add,
                   !.lastLocation = Fix(loc, accuracy, t)]
    IN Ok(IF isCp THEN "CP" ELSE "SPOT",
          [name |-> spot.Name, add |-> add], next)

\* Faulty variant of checkInTarget: the ID is pushed without the Set, so a repeated
\* check-in lists it twice.
checkInTarget_PushesAgain(progress, spot, loc, accuracy, t) ==
  IF TruthyStr(progress.boardedStationId)
     /\ spot.Category # Some(STATION_CATEGORY)
    THEN Fail("IN_TRAIN", <<>>)
  ELSE
    LET isCp == Includes(progress.cpSpotIds, spot.ID)
        add == IF Includes(progress.visitedSpotIds, spot.ID)
                 THEN 0 ELSE spot.Score
        next == [progress EXCEPT
                   !.visitedSpotIds = Append(@, spot.ID),
                   !.reachedCpIds = IF isCp THEN SetAdd(@, spot.ID) ELSE @,
                   !.score = @ + add,
                   !.lastLocation = Fix(loc, accuracy, t)]
    IN Ok(IF isCp THEN "CP" ELSE "SPOT",
          [name |-> spot.Name, add |-> add], next)

\* Faulty variant of checkInTarget: the visited list is replaced by the new ID.
checkInTarget_ForgetsVisited(progress, spot, loc, accuracy, t) ==
  IF TruthyStr(progress.boardedStationId)
     /\ spot.Category # Some(STATION_CATEGORY)
    THEN Fail("IN_TRAIN", <<>>)
  ELSE
    LET isCp == Includes(progress.cpSpotIds, spot.ID)
        add == IF Includes(progress.visitedSpotIds, spot.ID)
                 THEN 0 ELSE spot.Score
        next == [progress EXCEPT
                   !.visitedSpotIds = << spot.ID >>,
                   !.reachedCpIds = IF isCp THEN SetAdd(@, spot.ID) ELSE @,
                   !.score = @ + add,
                   !.lastLocation = Fix(loc, accuracy, t)]
    IN Ok(IF isCp THEN "CP" ELSE "SPOT",
          [name |-> spot.Name, add |-> add], next)

\* Faulty variant of checkInTarget: the in-train rule is missing.
checkInTarget_NoTrainRule(progress, spot, loc, accuracy, t) ==
  LET isCp == Includes(progress.cpSpotIds, spot.ID)
      add == IF Includes(progress.visitedSpotIds, spot.ID)
               THEN 0 ELSE spot.Score
      next == [progress EXCEPT
                 !.visitedSpotIds = SetAdd(@, spot.ID),
                 !.reachedCpIds = IF isCp THEN SetAdd(@, spot.ID) ELSE @,
                 !.score = @ + add,
                 !.lastLocation = Fix(loc, accuracy, t)]
  IN Ok(IF isCp THEN "CP" ELSE "SPOT",
        [name |-> spot.Name, add |-> add], next)

\* The in-train rule and the scoring of checkInSpotOrCp for the target spot.
checkInTarget(progress, spot, loc, accuracy, t) ==
  IF TruthyStr(progress.boardedStationId)
     /\ spot.Category # Some(STATION_CATEGORY)
    THEN Fail("IN_TRAIN", <<>>)
  ELSE
    LET isCp == Includes(progress.cpSpotIds, spot.ID)
        add == IF Includes(progress.visitedSpotIds, spot.ID)
                 THEN 0 ELSE spot.Score
        next == [progress EXCEPT
                   !.visitedSpotIds = SetAdd(@, spot.ID),
                   !.reachedCpIds = IF isCp THEN SetAdd(@, spot.ID) ELSE @,
                   !.score = @ + add,
                   !.lastLocation = Fix(loc, accuracy, t)]
    IN Ok(IF isCp THEN "CP" ELSE "SPOT",
          [name |-> spot.Name, add |-> add], next)

\* Faulty variant of checkInSpotOrCp: the GAME_ENDED gate is missing.
checkInSpotOrCp_NoEndedGate(progress, loc, accuracy, judgeSpots, t) ==
  IF accuracy > MAX_ACCURACY_M THEN AccuracyTooBad(accuracy)
  ELSE
    LET cand == pickSpotCandidateWithDenseCluster(progress, loc, judgeSpots,
                                                  DENSE_SPOT_DISTANCE_M)
    IN IF cand = Undefined THEN Fail("NO_SPOT", <<>>)
       ELSE checkInTarget(progress, cand[1].spot, loc, accuracy, t)

\* Faulty variant of checkInSpotOrCp: the accuracy gate tests >= instead of >.
checkInSpotOrCp_AccuracyGe(progress, loc, accuracy, judgeSpots, t) ==
  IF Truthy(progress.endedAtMs) THEN Fail("GAME_ENDED", <<>>)
  ELSE IF accuracy >= MAX_ACCURACY_M THEN AccuracyTooBad(accuracy)
  ELSE
    LET cand == pickSpotCandidateWithDenseCluster(progress, loc, judgeSpots,
                                                  DENSE_SPOT_DISTANCE_M)
    IN IF cand = Undefined THEN Fail("NO_SPOT", <<>>)
       ELSE checkInTarget(progress, cand[1].spot, loc, accuracy, t)

\* checkInSpotOrCp; t is the reading of nowMs() taken for lastLocation.
checkInSpotOrCp(progress, loc, accuracy, judgeSpots, t) ==
  IF Truthy(progress.endedAtMs) THEN Fail("GAME_ENDED", <<>>)
  ELSE IF accuracy > MAX_ACCURACY_M THEN AccuracyTooBad(accuracy)
  ELSE
    LET cand == pickSpotCandidateWithDenseCluster(progress, loc, judgeSpots,
                                                  DENSE_SPOT_DISTANCE_M)
    IN IF cand = Undefined THEN Fail("NO_SPOT", <<>>)
       ELSE checkInTarget(progress, cand[1].spot, loc, accuracy, t)

\* Faulty variant of CeilSeconds: the seconds left are rounded down.
CeilSeconds_Floor(ms) == ms \div 1000

\* Math.ceil((cooldownUntilMs - t) / 1000) for integers.
CeilSeconds(ms) == (ms + 999) \div 1000

\* { ok: false, code: 'COOLDOWN', message } with the seconds left.
Cooldown(left) == Fail("COOLDOWN", [left |-> left])

\* jrBoard; t is the reading of nowMs() taken on entry.
\* Faulty variant of jrBoard: ALREADY_BOARDED is looked at before the
\* cooldown.
jrBoard_BoardedBeforeCooldown(progress, loc, accuracy, stations, t) ==
  IF Truthy(progress.endedAtMs) THEN Fail("GAME_ENDED", <<>>)
  ELSE IF accuracy > MAX_ACCURACY_M THEN AccuracyTooBad(accuracy)
  ELSE IF ~progress.config.jrEnabled THEN Fail("JR_DISABLED", <<>>)
  ELSE IF TruthyStr(progress.boardedStationId) THEN Fail("ALREADY_BOARDED", <<>>)
  ELSE IF Truthy(progress.cooldownUntilMs) /\ t < progress.cooldownUntilMs[1]
    THEN Cooldown(CeilSeconds(progress.cooldownUntilMs[1] - t))
  ELSE
    LET cand == pickStationWithinRadius(stations, loc)
    IN IF cand = Undefined THEN Fail("NO_STATION", <<>>)
       ELSE
         LET stationId == cand[1].st.stationId
             next == [progress EXCEPT
                        !.boardedStationId = Some(stationId),
                        !.visitedStationEvents =
                           Append(@, [type |-> "BOARD",
                                      stationId |-> stationId, atMs |-> t]),
                        !.cooldownUntilMs = Some(t + JR_COOLDOWN_SEC * 1000),
                        !.lastLocation = Fix(loc, accuracy, t)]
         IN Ok("JR_BOARD", [name |-> cand[1].st.name], next)

\* Faulty variant of jrBoard: a station in usedStationIds cannot be boarded
\* again.
jrBoard_UsedStationGate(progress, loc, accuracy, stations, t) ==
  IF Truthy(progress.endedAtMs) THEN Fail("GAME_ENDED", <<>>)
  ELSE IF accuracy > MAX_ACCURACY_M THEN AccuracyTooBad(accuracy)
  ELSE IF ~progress.config.jrEnabled THEN Fail("JR_DISABLED", <<>>)
  ELSE IF Truthy(progress.cooldownUntilMs) /\ t < progress.cooldownUntilMs[1]
    THEN Cooldown(CeilSeconds(progress.cooldownUntilMs[1] - t))
  ELSE IF TruthyStr(progress.boardedStationId) THEN Fail("ALREADY_BOARDED", <<>>)
  ELSE
    LET cand == pickStationWithinRadius(stations, loc)
    IN IF cand = Undefined THEN Fail("NO_STATION", <<>>)
       ELSE IF Includes(progress.usedStationIds, cand[1].st.stationId)
         THEN Fail("STATION_USED", <<>>)
       ELSE
         LET stationId == cand[1].st.stationId
             next == [progress EXCEPT
                        !.boardedStationId = Some(stationId),
                        !.visitedStationEvents =
                           Append(@, [type |-> "BOARD",
                                      stationId |-> stationId, atMs |-> t]),
                        !.cooldownUntilMs = Some(t + JR_COOLDOWN_SEC * 1000),
                        !.lastLocation = Fix(loc, accuracy, t)]
         IN Ok("JR_BOARD", [name |-> cand[1].st.name], next)

jrBoard(progress, loc, accuracy, stations, t) ==
  IF Truthy(progress.endedAtMs) THEN Fail("GAME_ENDED", <<>>)
  ELSE IF accuracy > MAX_ACCURACY_M THEN AccuracyTooBad(accuracy)
  ELSE IF ~progress.config.jrEnabled THEN Fail("JR_DISABLED", <<>>)
  ELSE IF Truthy(progress.cooldownUntilMs) /\ t < progress.cooldownUntilMs[1]
    THEN Cooldown(CeilSeconds(progress.cooldownUntilMs[1] - t))
  ELSE IF TruthyStr(progress.boardedStationId) THEN Fail("ALREADY_BOARDED", <<>>)
  ELSE
    LET cand == pickStationWithinRadius(stations, loc)
    IN IF cand = Undefined THEN Fail("NO_STATION", <<>>)
       ELSE
         LET stationId == cand[1].st.stationId
             next == [progress EXCEPT
                        !.boardedStationId = Some(stationId),
                        !.visitedStationEvents =
                           Append(@, [type |-> "BOARD",
                                      stationId |-> stationId, atMs |-> t]),
                        !.cooldownUntilMs = Some(t + JR_COOLDOWN_SEC * 1000),
                        !.lastLocation = Fix(loc, accuracy, t)]
         IN Ok("JR_BOARD", [name |-> cand[1].st.name], next)

\* for (let i = a + step; step > 0 ? i < b : i > b; i += step)
RECURSIVE walkOrder(_, _, _, _)
walkOrder(i, b, step, stations) ==
  IF (IF step > 0 THEN i < b ELSE i > b)
    THEN LET idxs == { k \in 1..Len(stations) : stations[k].orderIndex = i }
             \* byOrder.get(i): the Map keeps the last station of an index
             found == IF idxs = {} THEN <<>>
                      ELSE << stations[CHOOSE k \in idxs :
                                         \A j \in idxs : j <= k] >>
         IN found \o walkOrder(i + step, b, step, stations)
  ELSE <<>>

\* Faulty variant of stationsBetween: the walk only goes up the line.
stationsBetween_UpOnly(board, alight, stations) ==
  walkOrder(board.orderIndex + 1, alight.orderIndex, 1, stations)

stationsBetween(board, alight, stations) ==
  LET a == board.orderIndex
      b == alight.orderIndex
      step == IF a < b THEN 1 ELSE -1
  IN walkOrder(a + step, b, step, stations)

\* isFinite(st.score ?? 0) ? (st.score ?? 0) : 0
scoreOf(st) ==
  LET v == IF st.score = Undefined THEN Some(0) ELSE st.score
  IN IF isFinite(v) THEN v[1] ELSE 0

\* Faulty variant of creditRide: a station already scored is credited again.
RECURSIVE creditRide_CreditsAgain(_, _, _)
creditRide_CreditsAgain(rideStations, scored, jrScore) ==
  IF rideStations = <<>> THEN [scored |-> scored, jrScore |-> jrScore]
  ELSE
    LET st == Head(rideStations)
    IN creditRide_CreditsAgain(Tail(rideStations), SetAdd(scored, st.stationId),
                               jrScore + scoreOf(st))

\* for (const st of rideStations) { if (scored.has(..)) continue; ... }
RECURSIVE creditRide(_, _, _)
creditRide(rideStations, scored, jrScore) ==
  IF rideStations = <<>> THEN [scored |-> scored, jrScore |-> jrScore]
  ELSE
    LET st == Head(rideStations)
    IN IF Includes(scored, st.stationId)
         THEN creditRide(Tail(rideStations), scored, jrScore)
       ELSE creditRide(Tail(rideStations), Append(scored, st.stationId),
                       jrScore + scoreOf(st))

\* Faulty variant of jrAlight: the player stays on board after alighting.
jrAlight_KeepsBoarded(progress, loc, accuracy, stations, t) ==
  IF Truthy(progress.endedAtMs) THEN Fail("GAME_ENDED", <<>>)
  ELSE IF accuracy > MAX_ACCURACY_M THEN AccuracyTooBad(accuracy)
  ELSE IF ~progress.config.jrEnabled THEN Fail("JR_DISABLED", <<>>)
  ELSE IF Truthy(progress.cooldownUntilMs) /\ t < progress.cooldownUntilMs[1]
    THEN Cooldown(CeilSeconds(progress.cooldownUntilMs[1] - t))
  ELSE IF ~TruthyStr(progress.boardedStationId) THEN Fail("NOT_BOARDED", <<>>)
  ELSE
    LET boardedId == progress.boardedStationId[1]
        cand == pickStationWithinRadius(stations, loc)
    IN IF cand = Undefined THEN Fail("NO_STATION", <<>>)
       ELSE IF cand[1].st.stationId = boardedId THEN Fail("SAME_STATION", <<>>)
       ELSE
         LET alightId == cand[1].st.stationId
             idxs == { k \in 1..Len(stations) :
                         stations[k].stationId = boardedId }
         IN IF idxs = {} THEN Fail("BOARD_STATION_UNKNOWN", <<>>)
            ELSE
              LET board == stations[CHOOSE k \in idxs : \A j \in idxs : j <= k]
                  pass == stationsBetween(board, cand[1].st, stations)
                  rideStations == << board >> \o pass \o << cand[1].st >>
                  r == creditRide(rideStations, progress.scoredStationIds, 0)
                  next == [progress EXCEPT
                             !.score = @ + r.jrScore,
                             !.scoredStationIds = r.scored,
                             !.visitedStationEvents =
                                Append(@, [type |-> "ALIGHT",
                                           stationId |-> alightId,
                                           atMs |-> t]),
                             !.cooldownUntilMs =
                                Some(t + JR_COOLDOWN_SEC * 1000),
                             !.lastLocation = Fix(loc, accuracy, t)]
              IN Ok("JR_ALIGHT",
                    [name |-> cand[1].st.name,
                     passNames |-> [i \in 1..Len(pass) |-> pass[i].name],
                     add |-> r.jrScore], next)

\* Faulty variant of jrAlight: alighting at the boarded station is accepted.
jrAlight_AllowsSameStation(progress, loc, accuracy, stations, t) ==
  IF Truthy(progress.endedAtMs) THEN Fail("GAME_ENDED", <<>>)
  ELSE IF accuracy > MAX_ACCURACY_M THEN AccuracyTooBad(accuracy)
  ELSE IF ~progress.config.jrEnabled THEN Fail("JR_DISABLED", <<>>)
  ELSE IF Truthy(progress.cooldownUntilMs) /\ t < progress.cooldownUntilMs[1]
    THEN Cooldown(CeilSeconds(progress.cooldownUntilMs[1] - t))
  ELSE IF ~TruthyStr(progress.boardedStationId) THEN Fail("NOT_BOARDED", <<>>)
  ELSE
    LET boardedId == progress.boardedStationId[1]
        cand == pickStationWithinRadius(stations, loc)
    IN IF cand = Undefined THEN Fail("NO_STATION", <<>>)
       ELSE
         LET alightId == cand[1].st.stationId
             idxs == { k \in 1..Len(stations) :
                         stations[k].stationId = boardedId }
         IN IF idxs = {} THEN Fail("BOARD_STATION_UNKNOWN", <<>>)
            ELSE
              LET board == stations[CHOOSE k \in idxs : \A j \in idxs : j <= k]
                  pass == stationsBetween(board, cand[1].st, stations)
                  rideStations == << board >> \o pass \o << cand[1].st >>
                  r == creditRide(rideStations, progress.scoredStationIds, 0)
                  next == [progress EXCEPT
                             !.score = @ + r.jrScore,
                             !.boardedStationId = Undefined,
                             !.scoredStationIds = r.scored,
                             !.visitedStationEvents =
                                Append(@, [type |-> "ALIGHT",
                                           stationId |-> alightId,
                                           atMs |-> t]),
                             !.cooldownUntilMs =
                                Some(t + JR_COOLDOWN_SEC * 1000),
                             !.lastLocation = Fix(loc, accuracy, t)]
              IN Ok("JR_ALIGHT",
                    [name |-> cand[1].st.name,
                     passNames |-> [i \in 1..Len(pass) |-> pass[i].name],
                     add |-> r.jrScore], next)

\* jrAlight; t is the reading of nowMs() taken on entry.
jrAlight(progress, loc, accuracy, stations, t) ==
  IF Truthy(progress.endedAtMs) THEN Fail("GAME_ENDED", <<>>)
  ELSE IF accuracy > MAX_ACCURACY_M THEN AccuracyTooBad(accuracy)
  ELSE IF ~progress.config.jrEnabled THEN Fail("JR_DISABLED", <<>>)
  ELSE IF Truthy(progress.cooldownUntilMs) /\ t < progress.cooldownUntilMs[1]
    THEN Cooldown(CeilSeconds(progress.cooldownUntilMs[1] - t))
  ELSE IF ~TruthyStr(progress.boardedStationId) THEN Fail("NOT_BOARDED", <<>>)
  ELSE
    LET boardedId == progress.boardedStationId[1]
        cand == pickStationWithinRadius(stations, loc)
    IN IF cand = Undefined THEN Fail("NO_STATION", <<>>)
       ELSE IF cand[1].st.stationId = boardedId THEN Fail("SAME_STATION", <<>>)
       ELSE
         LET alightId == cand[1].st.stationId
             idxs == { k \in 1..Len(stations) :
                         stations[k].stationId = boardedId }
         IN IF idxs = {} THEN Fail("BOARD_STATION_UNKNOWN", <<>>)
            ELSE
              LET board == stations[CHOOSE k \in idxs : \A j \in idxs : j <= k]
                  pass == stationsBetween(board, cand[1].st, stations)
                  rideStations == << board >> \o pass \o << cand[1].st >>
                  r == creditRide(rideStations, progress.scoredStationIds, 0)
                  next == [progress EXCEPT
                             !.score = @ + r.jrScore,
                             !.boardedStationId = Undefined,
                             !.scoredStationIds = r.scored,
                             !.visitedStationEvents =
                                Append(@, [type |-> "ALIGHT",
                                           stationId |-> alightId,
                                           atMs |-> t]),
                             !.cooldownUntilMs =
                                Some(t + JR_COOLDOWN_SEC * 1000),
                             !.lastLocation = Fix(loc, accuracy, t)]
              IN Ok("JR_ALIGHT",
                    [name |-> cand[1].st.name,
                     passNames |-> [i \in 1..Len(pass) |-> pass[i].name],
                     add |-> r.jrScore], next)

Max(a, b) == IF a >= b THEN a ELSE b

\* Faulty variant of goalCheckIn: the goal ends an open boarding.
goalCheckIn_LeavesTrain(progress, loc, accuracy, t) ==
  IF Truthy(progress.endedAtMs) THEN Fail("GAME_ENDED", <<>>)
  ELSE IF accuracy > MAX_ACCURACY_M THEN AccuracyTooBad(accuracy)
  ELSE IF haversineMetersSq(loc, progress.config.goal) > Sq(CHECKIN_RADIUS_M)
    THEN Fail("NOT_AT_GOAL", <<>>)
  ELSE
    LET timePenalty == calcPenalty(progress.startedAtMs,
                                   progress.config.durationMin, t)
        reachedCp == SeqToSet(progress.reachedCpIds)
        cpPenalty == Max(0, Len(progress.cpSpotIds) - Cardinality(reachedCp))
                       * 100
        penalty == timePenalty + cpPenalty
        next == [progress EXCEPT
                   !.endedAtMs = Some(t),
                   !.endReason = Some("GOAL"),
                   !.boardedStationId = Undefined,
                   !.penalty = penalty,
                   !.score = @ - penalty,
                   !.lastLocation = Fix(loc, accuracy, t)]
    IN Ok("GOAL", [penalty |-> penalty, cpPenalty |-> cpPenalty], next)

\* Faulty variant of goalCheckIn: the penalty is stored and not subtracted.
goalCheckIn_KeepsScore(progress, loc, accuracy, t) ==
  IF Truthy(progress.endedAtMs) THEN Fail("GAME_ENDED", <<>>)
  ELSE IF accuracy > MAX_ACCURACY_M THEN AccuracyTooBad(accuracy)
  ELSE IF haversineMetersSq(loc, progress.config.goal) > Sq(CHECKIN_RADIUS_M)
    THEN Fail("NOT_AT_GOAL", <<>>)
  ELSE
    LET timePenalty == calcPenalty(progress.startedAtMs,
                                   progress.config.durationMin, t)
        reachedCp == SeqToSet(progress.reachedCpIds)
        cpPenalty == Max(0, Len(progress.cpSpotIds) - Cardinality(reachedCp))
                       * 100
        penalty == timePenalty + cpPenalty
        next == [progress EXCEPT
                   !.endedAtMs = Some(t),
                   !.endReason = Some("GOAL"),
                   !.penalty = penalty,
                   !.lastLocation = Fix(loc, accuracy, t)]
    IN Ok("GOAL", [penalty |-> penalty, cpPenalty |-> cpPenalty], next)

\* Faulty variant of goalCheckIn: the goal is refused while a JR cooldown runs.
goalCheckIn_CooldownGated(progress, loc, accuracy, t) ==
  IF Truthy(progress.endedAtMs) THEN Fail("GAME_ENDED", <<>>)
  ELSE IF accuracy > MAX_ACCURACY_M THEN AccuracyTooBad(accuracy)
  ELSE IF Truthy(progress.cooldownUntilMs) /\ t < progress.cooldownUntilMs[1]
    THEN Cooldown(CeilSeconds(progress.cooldownUntilMs[1] - t))
  ELSE IF haversineMetersSq(loc, progress.config.goal) > Sq(CHECKIN_RADIUS_M)
    THEN Fail("NOT_AT_GOAL", <<>>)
  ELSE
    LET timePenalty == calcPenalty(progress.startedAtMs,
                                   progress.config.durationMin, t)
        reachedCp == SeqToSet(progress.reachedCpIds)
        cpPenalty == Max(0, Len(progress.cpSpotIds) - Cardinality(reachedCp))
                       * 100
        penalty == timePenalty + cpPenalty
        next == [progress EXCEPT
                   !.endedAtMs = Some(t),
                   !.endReason = Some("GOAL"),
                   !.penalty = penalty,
                   !.score = @ - penalty,
                   !.lastLocation = Fix(loc, accuracy, t)]
    IN Ok("GOAL", [penalty |-> penalty, cpPenalty |-> cpPenalty], next)

\* Faulty variant of goalCheckIn: the checkpoint penalty is reported but not
\* charged.
goalCheckIn_TimePenaltyOnly(progress, loc, accuracy, t) ==
  IF Truthy(progress.endedAtMs) THEN Fail("GAME_ENDED", <<>>)
  ELSE IF accuracy > MAX_ACCURACY_M THEN AccuracyTooBad(accuracy)
  ELSE IF haversineMetersSq(loc, progress.config.goal) > Sq(CHECKIN_RADIUS_M)
    THEN Fail("NOT_AT_GOAL", <<>>)
  ELSE
    LET timePenalty == calcPenalty(progress.startedAtMs,
                                   progress.config.durationMin, t)
        reachedCp == SeqToSet(progress.reachedCpIds)
        cpPenalty == Max(0, Len(progress.cpSpotIds) - Cardinality(reachedCp))
                       * 100
        penalty == timePenalty
        next == [progress EXCEPT
                   !.endedAtMs = Some(t),
                   !.endReason = Some("GOAL"),
                   !.penalty = penalty,
                   !.score = @ - penalty,
                   !.lastLocation = Fix(loc, accuracy, t)]
    IN Ok("GOAL", [penalty |-> penalty, cpPenalty |-> cpPenalty], next)

\* goalCheckIn; t is the reading of nowMs() taken on entry.
goalCheckIn(progress, loc, accuracy, t) ==
  IF Truthy(progress.endedAtMs) THEN Fail("GAME_ENDED", <<>>)
  ELSE IF accuracy > MAX_ACCURACY_M THEN AccuracyTooBad(accuracy)
  ELSE IF haversineMetersSq(loc, progress.config.goal) > Sq(CHECKIN_RADIUS_M)
    THEN Fail("NOT_AT_GOAL", <<>>)
  ELSE
    LET timePenalty == calcPenalty(progress.startedAtMs,
                                   progress.config.durationMin, t)
        reachedCp == SeqToSet(progress.reachedCpIds)
        cpPenalty == Max(0, Len(progress.cpSpotIds) - Cardinality(reachedCp))
                       * 100
        penalty == timePenalty + cpPenalty
        next == [progress EXCEPT
                   !.endedAtMs = Some(t),
                   !.endReason = Some("GOAL"),
                   !.penalty = penalty,
                   !.score = @ - penalty,
                   !.lastLocation = Fix(loc, accuracy, t)]
    IN Ok("GOAL", [penalty |-> penalty, cpPenalty |-> cpPenalty], next)

\* ------------------------------------------------------------------------
\* The game as a state machine: one engine call per step
\* ------------------------------------------------------------------------
VARIABLES
  world,     \* master data of the game: judgeSpots, stations, places to stand
  now,       \* Date.now()
  progress,  \* the stored GameProgress snapshot
  call,      \* the last engine call: op, loc, accuracy, t (<<>> before any)
  result     \* what the last engine call returned (<<>> before any)

vars == << world, now, progress, call, result >>

\* Clock readings at which the next engine call may be made.
Later(t) ==
  LET steps == IF "steps" \in DOMAIN world THEN world.steps ELSE { 0, StepMs }
      last == IF "maxNow" \in DOMAIN world THEN world.maxNow ELSE MaxNow
  IN { t2 \in { t + d : d \in steps } : t2 <= last }

Init ==
  /\ world \in Worlds
  /\ now = T0
  /\ \E jr \in world.jr, cps \in world.cpChoices :
       progress = startNewGame([durationMin |-> 15, jrEnabled |-> jr,
                                cpCount |-> Len(cps),
                                start |-> world.goal, goal |-> world.goal],
                               cps, T0)
  /\ call = <<>>
  /\ result = <<>>

\* Faulty variant of Apply: the caller records the fix of a refused call as well.
Apply_RecordsRefusedFix(op, fix, t, r) ==
  /\ now' = t
  /\ call' = [op |-> op, loc |-> LatLng(fix.lat, fix.lng),
              accuracy |-> fix.accuracy, t |-> t]
  /\ result' = r
  /\ progress' = IF r.ok THEN r.progress
                 ELSE [progress EXCEPT
                         !.lastLocation =
                            Fix(LatLng(fix.lat, fix.lng), fix.accuracy, t)]
  /\ UNCHANGED world

\* The caller (PlayPage) stores r.progress on ok:true and nothing otherwise.
Apply(op, fix, t, r) ==
  /\ now' = t
  /\ call' = [op |-> op, loc |-> LatLng(fix.lat, fix.lng),
              accuracy |-> fix.accuracy, t |-> t]
  /\ result' = r
  /\ progress' = IF r.ok THEN r.progress ELSE progress
  /\ UNCHANGED world

CheckInSpotOrCp ==
  \E fix \in world.fixes, t \in Later(now) :
    Apply("checkInSpotOrCp", fix, t,
          checkInSpotOrCp(progress, LatLng(fix.lat, fix.lng), fix.accuracy,
                          world.judgeSpots, t))

JrBoard ==
  \E fix \in world.fixes, t \in Later(now) :
    /\ Len(progress.visitedStationEvents) < MaxEvents
    /\ Apply("jrBoard", fix, t,
             jrBoard(progress, LatLng(fix.lat, fix.lng), fix.accuracy,
                     world.stations, t))

JrAlight ==
  \E fix \in world.fixes, t \in Later(now) :
    /\ Len(progress.visitedStationEvents) < MaxEvents
    /\ Apply("jrAlight", fix, t,
             jrAlight(progress, LatLng(fix.lat, fix.lng), fix.accuracy,
                      world.stations, t))

GoalCheckIn ==
  \E fix \in world.fixes, t \in Later(now) :
    Apply("goalCheckIn", fix, t,
          goalCheckIn(progress, LatLng(fix.lat, fix.lng), fix.accuracy, t))

Next == CheckInSpotOrCp \/ JrBoard \/ JrAlight \/ GoalCheckIn

Spec == Init /\ [][Next]_vars

\* Another station master is imported (ImportPage, dataSync) and PlayPage,
\* mounted again, reads it for the game in progress; the master it replaces
\* can be imported again later.
ReloadStations ==
  /\ "reimported" \in DOMAIN world
  /\ world' = [world EXCEPT !.stations = world.reimported,
                            !.reimported = world.stations]
  /\ call' = [op |-> "reloadStations", t |-> now]
  /\ result' = <<>>
  /\ UNCHANGED << now, progress >>

\* The worlds with a rail line that can be ridden.
RailWorlds == { WorldLine, WorldRail }

InitRail ==
  /\ world \in RailWorlds
  /\ now = T0
  /\ \E jr \in world.jr, cps \in world.cpChoices :
       progress = startNewGame([durationMin |-> 15, jrEnabled |-> jr,
                                cpCount |-> Len(cps),
                                start |-> world.goal, goal |-> world.goal],
                               cps, T0)
  /\ call = <<>>
  /\ result = <<>>

NextRail == Next \/ ReloadStations

\* The game on the rail line, the master re-import included.
SpecRail == InitRail /\ [][NextRail]_vars

\* usedStationIds as older saved games hold it: empty, or with stations of
\* the line that were boarded and alighted at.
LegacyUsed == { <<>>, << "J06", "J03" >> }

\* A game on WorldLine resumed from saved data, whatever its usedStationIds.
InitLegacy ==
  /\ world = WorldLine
  /\ now = T0
  /\ \E jr \in world.jr, cps \in world.cpChoices, used \in LegacyUsed :
       progress = [startNewGame([durationMin |-> 15, jrEnabled |-> jr,
                                 cpCount |-> Len(cps),
                                 start |-> world.goal, goal |-> world.goal],
                                cps, T0)
                     EXCEPT !.usedStationIds = used]
  /\ call = <<>>
  /\ result = <<>>

\* The game resumed from older saved data.
SpecLegacy == InitLegacy /\ [][Next]_vars

\* The line of WorldRail with a sight next to J06, played with or without
\* the rail line.  The goal is 300 m past J06, with no station and no spot
\* in reach; at J03 a fix too coarse is had as well.  The other master
\* lacks J04.
WorldOrder ==
  [name |-> "order",
   judgeSpots |-> << Spot("S02", 0, 310, 20, Some("KANKO")) >>,
   stations |-> WorldRail.stations,
   reimported |-> WorldRail.reimported,
   fixes |-> { LocationFix(0, 0, 20),
               LocationFix(0, 0, MAX_ACCURACY_M + 1),
               LocationFix(0, 100, 20),
               LocationFix(0, 300, 20),
               LocationFix(0, 600, 20) },
   steps |-> { 0, JR_COOLDOWN_SEC * 1000 },
   goal |-> LatLng(0, 600),
   jr |-> BOOLEAN,
   cpChoices |-> { <<>> }]

InitOrder ==
  /\ world = WorldOrder
  /\ now = T0
  /\ \E jr \in world.jr, cps \in world.cpChoices :
       progress = startNewGame([durationMin |-> 15, jrEnabled |-> jr,
                                cpCount |-> Len(cps),
                                start |-> world.goal, goal |-> world.goal],
                               cps, T0)
  /\ call = <<>>
  /\ result = <<>>

\* The game in which every refusal of the rail operations can be met.
SpecOrder == InitOrder /\ [][NextRail]_vars

\* Index of the first spot of the list that no other spot is nearer to p2
\* than (0 for an empty list): if (!best || d < best.d) best = { sp: s, d }.
nearestSpot(spots, p2) ==
  LET d(k) == haversineMetersSq(p2, LatLng(spots[k].Latitude,
                                           spots[k].Longitude))
  IN IF spots = <<>> THEN 0
     ELSE CHOOSE k \in 1..Len(spots) :
            /\ \A j \in 1..Len(spots) : d(k) <= d(j)
            /\ \A j \in 1..(k - 1) : d(j) > d(k)

\* Faulty variant of onDragEnd: a spot that is another checkpoint already is
\* accepted.
onDragEnd_AllowsDuplicate(p, i, p2, spots) ==
  LET best == nearestSpot(spots, p2)
  IN IF best = 0
        \/ haversineMetersSq(p2, LatLng(spots[best].Latitude,
                                        spots[best].Longitude)) > Sq(300)
       THEN p
     ELSE [p EXCEPT !.cpSpotIds[i] = spots[best].ID]

\* PlayPage onDragEnd of the marker of checkpoint i (debug tools), dropped at
\* p2: the snapshot to store, or the present one when the marker reverts.
onDragEnd(p, i, p2, spots) ==
  LET best == nearestSpot(spots, p2)
  IN IF best = 0
        \/ haversineMetersSq(p2, LatLng(spots[best].Latitude,
                                        spots[best].Longitude)) > Sq(300)
       THEN p
     ELSE IF \E idx \in 1..Len(p.cpSpotIds) :
               idx # i /\ p.cpSpotIds[idx] = spots[best].ID
       THEN p
     ELSE [p EXCEPT !.cpSpotIds[i] = spots[best].ID]

\* Where a checkpoint marker is dropped: the places of the world, and one
\* far from every spot.
DragPositions ==
  { LatLng(f.lat, f.lng) : f \in world.fixes } \cup { LatLng(0, 1000) }

\* A checkpoint marker is dragged and dropped while the game runs.
CpDrag ==
  \E i \in 1..Len(progress.cpSpotIds), p2 \in DragPositions :
    /\ ~Truthy(progress.endedAtMs)
    /\ call' = [op |-> "cpDrag", t |-> now]
    /\ result' = <<>>
    /\ progress' = onDragEnd(progress, i, p2, world.judgeSpots)
    /\ UNCHANGED << world, now >>

\* The spots of WorldTie with two checkpoints, played from the origin and
\* from a place within reach of S01 and of the goal, in a game of 17 minutes:
\* a goal reached in the first two minutes is early.
WorldDrag ==
  [name |-> "drag",
   judgeSpots |-> WorldTie.judgeSpots,
   stations |-> <<>>,
   fixes |-> { LocationFix(0, 0, MAX_ACCURACY_M),
               LocationFix(60, 0, MAX_ACCURACY_M) },
   steps |-> { 0, 3 * StepMs },
   durationMin |-> 17,
   goal |-> LatLng(100, 0),
   jr |-> { FALSE },
   cpChoices |-> { << "S04", "S03" >> }]

InitDebug ==
  /\ world = WorldDrag
  /\ now = T0
  /\ \E jr \in world.jr, cps \in world.cpChoices :
       progress = startNewGame([durationMin |-> world.durationMin,
                                jrEnabled |-> jr,
                                cpCount |-> Len(cps),
                                start |-> world.goal, goal |-> world.goal],
                               cps, T0)
  /\ call = <<>>
  /\ result = <<>>

NextDebug == Next \/ CpDrag

\* The game with the debug tools on: checkpoints can be reassigned.
SpecDebug == InitDebug /\ [][NextDebug]_vars

\* ResultPage: the penalty breakdown recomputed from the stored snapshot.
resultPenaltyBreakdown(p) ==
  LET reachedCpSet == SeqToSet(p.reachedCpIds)
      notReached(id) == id \notin reachedCpSet
      missingCpCount == Len(SelectSeq(p.cpSpotIds, notReached))
  IN [missingCpCount |-> missingCpCount,
      cpPenalty |-> missingCpCount * 100,
      timePenalty |-> IF Truthy(p.endedAtMs)
                        THEN calcPenalty(p.startedAtMs, p.config.durationMin,
                                         p.endedAtMs[1])
                      ELSE 0]

\* The inputs of a calcPenalty call: a start time, a duration and a goal time
\* of whole minutes after the start, and a millisecond, half a minute, a
\* minute less a millisecond more.
InitPenalty ==
  /\ world = [name |-> "none"]
  /\ now = T0
  /\ progress = <<>>
  /\ \E startedAtMs \in { 0, T0 },
        durationMin \in { 10, 15, 60, 180 },
        m \in 0..MaxGoalMin,
        d \in { 0, 1, 30000, 59999 } :
       call = [op |-> "calcPenalty", startedAtMs |-> startedAtMs,
               durationMin |-> durationMin,
               goalAtMs |-> startedAtMs + m * 60000 + d]
  /\ result = <<>>

\* calcPenalty applied to the inputs.
CalcPenalty ==
  /\ result = <<>>
  /\ result' = [value |-> calcPenalty(call.startedAtMs, call.durationMin,
                                       call.goalAtMs)]
  /\ UNCHANGED << world, now, progress, call >>

\* calcPenalty on its own.
SpecPenalty == InitPenalty /\ [][CalcPenalty]_vars

\* The game of the end-to-end scenario: three hours, start and goal at one
\* place, no checkpoints, no rail line, one spot of 50 points 10 m from the
\* start.  The player stands at the start or half a kilometre off, with a
\* fix of 20 m or one too coarse, and the clock is read every hour or hour
\* and a half, up to an hour past the planned end.
TraceDurationMin == 180

WorldTrace ==
  [name |-> "trace",
   judgeSpots |-> << Spot("S01", 0, 10, 50, Undefined) >>,
   stations |-> <<>>,
   fixes |-> { LocationFix(0, 0, 20), LocationFix(0, 500, 20),
               LocationFix(0, 0, 120) },
   steps |-> { 0, 60 * 60000, 90 * 60000 },
   maxNow |-> T0 + (TraceDurationMin + 60) * 60000,
   durationMin |-> TraceDurationMin,
   goal |-> LatLng(0, 0),
   jr |-> { FALSE },
   cpChoices |-> { <<>> }]

InitTrace ==
  /\ world = WorldTrace
  /\ now = T0
  /\ \E jr \in world.jr, cps \in world.cpChoices :
       progress = startNewGame([durationMin |-> world.durationMin,
                                jrEnabled |-> jr,
                                cpCount |-> Len(cps),
                                start |-> world.goal, goal |-> world.goal],
                               cps, T0)
  /\ call = <<>>
  /\ result = <<>>

NextTrace == CheckInSpotOrCp \/ GoalCheckIn

\* The game of the scenario, played with the two buttons it shows.
SpecTrace == InitTrace /\ [][NextTrace]_vars

\* ------------------------------------------------------------------------
\* Checkpoint selection (logic/game, utils/graph)
\* ------------------------------------------------------------------------
\* The length of the shortlist drawn from when one or two checkpoints are
\* asked for.
ShortlistMax == 30

\* The size of a pool that is longer than the shortlist.
BigPoolSize == 31

\* haversineMeters, to the metre: exact for the positions of the pools below,
\* which lie on one line with start and goal.
haversineMeters(a, b) ==
  LET sq == haversineMetersSq(a, b)
      dlat == IF a.lat >= b.lat THEN a.lat - b.lat ELSE b.lat - a.lat
      dlng == IF a.lng >= b.lng THEN a.lng - b.lng ELSE b.lng - a.lng
  IN CHOOSE r \in 0..(dlat + dlng) : r * r <= sq /\ sq < (r + 1) * (r + 1)

\* detourRatioMVP: the quotient (dS + dG) / dSG, kept as a fraction.
detourRatioMVP(spots, start, goal, candidate) ==
  LET h == haversineMeters(start, goal)
      dSG == IF h = 0 THEN 1 ELSE h
      at == LatLng(candidate.Latitude, candidate.Longitude)
      dS == haversineMeters(start, at)
      dG == haversineMeters(goal, at)
  IN [num |-> dS + dG, den |-> dSG]

\* a.r - b.r, by its sign.
ratioCompare(a, b) == a.r.num * b.r.den - b.r.num * a.r.den

\* scored.sort((a, b) => a.r - b.r): the sort is stable, so an entry comes
\* after the entries of a smaller ratio and the earlier entries of the same
\* ratio.
sortedPlace(s, i) ==
  1 + Cardinality({ j \in 1..Len(s) :
                      \/ ratioCompare(s[j], s[i]) < 0
                      \/ ratioCompare(s[j], s[i]) = 0 /\ j < i })

SortByRatio(s) ==
  [k \in 1..Len(s) |-> s[CHOOSE i \in 1..Len(s) : sortedPlace(s, i) = k]]

\* A judge spot with an address; the address is the sequence of its parts,
\* and addr.includes(city) asks whether the city is one of them.
CpSpot(id, lng, address) ==
  [ID |-> id, Name |-> id, Latitude |-> 0, Longitude |-> lng, Score |-> 10,
   Category |-> Undefined, Address |-> address]

\* String.prototype.trim on a sequence of parts: blank parts at either end
\* are dropped.
RECURSIVE trimStart(_)
trimStart(a) ==
  IF a = <<>> \/ Head(a) # " " THEN a ELSE trimStart(Tail(a))

RECURSIVE trimEnd(_)
trimEnd(a) ==
  IF a = <<>> \/ a[Len(a)] # " " THEN a
  ELSE trimEnd(SubSeq(a, 1, Len(a) - 1))

trim(a) == trimEnd(trimStart(a))

\* addr = (s.Address ?? '').trim(); addr is non-empty and includes city.
addrIncludes(s, city) ==
  LET addr == trim(IF s.Address = Undefined THEN <<>> ELSE s.Address[1])
  IN addr # <<>> /\ Includes(addr, city)

\* allJudgeSpots.filter(...) with the flags f.
ArrayFilterByCity(spots, f) ==
  LET keep(s) == \/ f.ibusuki /\ addrIncludes(s, "ibusuki")
                 \/ f.minamikyushu /\ addrIncludes(s, "minamikyushu")
                 \/ f.makurazaki /\ addrIncludes(s, "makurazaki")
  IN SelectSeq(spots, keep)

\* Faulty variant of filterCpPoolByCity: flags that are all off filter too.
filterCpPoolByCity_NoneSelectedFilters(allJudgeSpots, config) ==
  LET f == config.cityFilter
  IN IF f = Undefined THEN allJudgeSpots
     ELSE ArrayFilterByCity(allJudgeSpots, f[1])

\* filterCpPoolByCity
filterCpPoolByCity(allJudgeSpots, config) ==
  LET f == config.cityFilter
  IN IF f = Undefined THEN allJudgeSpots
     ELSE IF ~(f[1].ibusuki \/ f[1].minamikyushu \/ f[1].makurazaki)
       THEN allJudgeSpots
     ELSE ArrayFilterByCity(allJudgeSpots, f[1])

\* Math.max(0, Math.min(5, cpCount))
clampCpCount(cpCount) == Max(0, IF cpCount <= 5 THEN cpCount ELSE 5)

\* a.splice(idx, 1) on a 0-based index: the array that is left.
Splice(a, idx) == SubSeq(a, 1, idx) \o SubSeq(a, idx + 2, Len(a))

\* selectCpSpotsMVP up to the sort or, for three checkpoints and more, up to
\* the loop: the count asked for, the pool with its ratios, and the IDs drawn
\* from.
selectEnter(allJudgeSpots, config) ==
  LET n == clampCpCount(config.cpCount)
      pool == filterCpPoolByCity(allJudgeSpots, config)
      scored == [i \in 1..Len(pool) |->
                  [id |-> pool[i].ID,
                   r |-> detourRatioMVP(allJudgeSpots, config.start,
                                        config.goal, pool[i])]]
      ids == [i \in 1..Len(pool) |-> pool[i].ID]
      l == [pc |-> "done", n |-> n, scored |-> <<>>, ids |-> <<>>,
            picked |-> <<>>]
  IN IF n = 0 THEN l
     ELSE IF n <= 2 THEN [l EXCEPT !.pc = "sort", !.scored = scored]
     ELSE [l EXCEPT !.pc = "loop", !.ids = ids]

\* .sort((a, b) => a.r - b.r)
selectSort(l) == [l EXCEPT !.pc = "top", !.scored = SortByRatio(l.scored)]

\* Faulty variant of selectTop: the whole sorted pool is the shortlist.
selectTop_WholePool(l) ==
  [l EXCEPT !.pc = "loop",
            !.ids = [i \in 1..Len(l.scored) |-> l.scored[i].id]]

\* K = Math.min(30, scored.length); top = scored.slice(0, K).map(x => x.id)
selectTop(l) ==
  LET K == IF ShortlistMax <= Len(l.scored) THEN ShortlistMax
           ELSE Len(l.scored)
  IN [l EXCEPT !.pc = "loop", !.ids = [i \in 1..K |-> l.scored[i].id]]

\* Faulty variant of selectDraw: the ID drawn stays in the array.
selectDraw_WithReplacement(l, idx) ==
  [l EXCEPT !.picked = Append(l.picked, l.ids[idx + 1])]

\* One turn of the loop, with idx = Math.floor(Math.random() * ids.length).
selectDraw(l, idx) ==
  [l EXCEPT !.picked = Append(l.picked, l.ids[idx + 1]),
            !.ids = Splice(l.ids, idx)]

\* while (picked.length < n && ids.length)
selectLoops(l) == Len(l.picked) < l.n /\ Len(l.ids) # 0

\* Six spots between and beyond a start and a goal 10 m apart: two of one
\* city, one of each of the two others, one of a city that is never asked
\* for and one without an address.
SmallPool ==
  << CpSpot("S05", 40, Some(<< "kagoshima", "ibusuki" >>)),
     CpSpot("S01", 5, Some(<< "makurazaki" >>)),
     CpSpot("S06", -20, Undefined),
     CpSpot("S02", 12, Some(<< "kagoshima", "minamikyushu" >>)),
     CpSpot("S04", 3, Some(<< "kagoshima", "kanoya" >>)),
     CpSpot("S03", 8, Some(<< "ibusuki", "yamagawa" >>)) >>

\* BigPoolSize spots of one city, 1 m apart, in an order that is not the
\* order of their distances; they are named by their place in the pool.
BigPool ==
  [i \in 1..BigPoolSize |->
     CpSpot(ToString(i), ((i * 7) % BigPoolSize) + 1, Some(<< "ibusuki" >>))]

NoCity == [ibusuki |-> FALSE, minamikyushu |-> FALSE, makurazaki |-> FALSE]

\* The pools, and with each the checkpoint counts and goals it is asked with.
SelectInputs ==
  { [pool |-> SmallPool, cpCounts |-> -1..7,
     goals |-> { LatLng(0, 0), LatLng(0, 10) }],
    [pool |-> BigPool, cpCounts |-> { 1, 2 }, goals |-> { LatLng(0, 10) }] }

CityFilters ==
  { Undefined, Some(NoCity), Some([NoCity EXCEPT !.ibusuki = TRUE]),
    Some([NoCity EXCEPT !.minamikyushu = TRUE, !.makurazaki = TRUE]),
    Some([NoCity EXCEPT !.makurazaki = TRUE]) }

\* A call of selectCpSpotsMVP about to be made.
InitSelect ==
  /\ now = T0
  /\ progress = <<>>
  /\ result = <<>>
  /\ \E in \in SelectInputs :
       /\ world = [name |-> "select", judgeSpots |-> in.pool]
       /\ \E cpCount \in in.cpCounts, goal \in in.goals, f \in CityFilters :
            call = [op |-> "selectCpSpotsMVP",
                    config |-> [cpCount |-> cpCount, cityFilter |-> f,
                                start |-> LatLng(0, 0), goal |-> goal]]

SelectEnter ==
  /\ result = <<>>
  /\ result' = selectEnter(world.judgeSpots, call.config)
  /\ UNCHANGED << world, now, progress, call >>

SelectSort ==
  /\ result # <<>>
  /\ result.pc = "sort"
  /\ result' = selectSort(result)
  /\ UNCHANGED << world, now, progress, call >>

SelectTop ==
  /\ result # <<>>
  /\ result.pc = "top"
  /\ result' = selectTop(result)
  /\ UNCHANGED << world, now, progress, call >>

SelectDraw ==
  /\ result # <<>>
  /\ result.pc = "loop"
  /\ selectLoops(result)
  /\ \E idx \in 0..(Len(result.ids) - 1) : result' = selectDraw(result, idx)
  /\ UNCHANGED << world, now, progress, call >>

SelectReturn ==
  /\ result # <<>>
  /\ result.pc = "loop"
  /\ ~selectLoops(result)
  /\ result' = [result EXCEPT !.pc = "done"]
  /\ UNCHANGED << world, now, progress, call >>

NextSelect ==
  SelectEnter \/ SelectSort \/ SelectTop \/ SelectDraw \/ SelectReturn

\* selectCpSpotsMVP on its own; a call that has begun runs on.
SpecSelect == InitSelect /\ [][NextSelect]_vars /\ WF_vars(NextSelect)

\* Spots of every kind of address: a city, a city after a blank, two cities,
\* a city that is never asked for, blanks only, the empty string, none.
AddressPool ==
  << CpSpot("S01", 1, Some(<< "kagoshima", "ibusuki", "yamagawa" >>)),
     CpSpot("S02", 2, Some(<< " ", "minamikyushu" >>)),
     CpSpot("S03", 3, Some(<< "makurazaki", " " >>)),
     CpSpot("S04", 4, Some(<< "ibusuki", "makurazaki" >>)),
     CpSpot("S05", 5, Some(<< "kagoshima", "kanoya" >>)),
     CpSpot("S06", 6, Some(<< " ", " " >>)),
     CpSpot("S07", 7, Some(<<>>)),
     CpSpot("S08", 8, Undefined) >>

\* The entries of a at the indices I, in the order of a.
Pick(a, I) ==
  [k \in 1..Cardinality(I) |->
     a[CHOOSE i \in I : Cardinality({ j \in I : j < i }) = k - 1]]

AllCityFilters ==
  { Undefined }
    \cup { Some([ibusuki |-> a, minamikyushu |-> b, makurazaki |-> c]) :
             a \in BOOLEAN, b \in BOOLEAN, c \in BOOLEAN }

\* A pool and a config that SetupPage is about to filter.
InitFilter ==
  /\ now = T0
  /\ progress = <<>>
  /\ result = <<>>
  /\ \E I \in SUBSET (1..Len(AddressPool)) :
       world = [name |-> "filter", judgeSpots |-> Pick(AddressPool, I)]
  /\ \E f \in AllCityFilters :
       call = [op |-> "filterCpPoolByCity", config |-> [cityFilter |-> f]]

\* cpPool = filterCpPoolByCity(spotsForCp, resolved) in SetupPage.
FilterPool ==
  /\ result = <<>>
  /\ result' = [cpPool |-> filterCpPoolByCity(world.judgeSpots, call.config)]
  /\ UNCHANGED << world, now, progress, call >>

\* pool = filterCpPoolByCity(cpPool, config) in selectCpSpotsMVP.
FilterAgain ==
  /\ result # <<>>
  /\ DOMAIN result = { "cpPool" }
  /\ result' = [cpPool |-> result.cpPool,
                pool |-> filterCpPoolByCity(result.cpPool, call.config)]
  /\ UNCHANGED << world, now, progress, call >>

NextFilter == FilterPool \/ FilterAgain

\* The city filter on its own, applied by SetupPage and again by the
\* selection.
SpecFilter == InitFilter /\ [][NextFilter]_vars

\* ------------------------------------------------------------------------
\* Achievement engine (logic/achievements)
\* ------------------------------------------------------------------------
\* The text fields of the spots of this section (Address, PostalCode,
\* Category) and the achievement IDs are sequences of parts; a blank is the
\* part " ".
ACH_ID_ALL_SPOTS == << "ACH_ALL_SPOTS" >>
ACH_ID_CITY_IBUSUKI == << "ACH_CITY_IBUSUKI" >>
ACH_ID_CITY_MINAMIKYUSHU == << "ACH_CITY_MINAMIKYUSHU" >>
ACH_ID_CITY_MAKURAZAKI == << "ACH_CITY_MAKURAZAKI" >>

makePostalId(postalCode) == << "ACH_POSTAL_" >> \o postalCode

\* encodeURIComponent: a blank becomes %20, the other parts of the
\* categories used here stay as they are.
encodeURIComponent(str) ==
  [i \in 1..Len(str) |-> IF str[i] = " " THEN "%20" ELSE str[i]]

makeCategoryId(category) == << "ACH_CAT_" >> \o encodeURIComponent(category)

\* s.Address ?? '', s.PostalCode ?? '', s.Category ?? ''
textOf(s, field) == IF s[field] = Undefined THEN <<>> ELSE s[field][1]

\* judgeSpots.filter(s => s.JudgeTarget === 1)
achTargets(judgeSpots) ==
  LET isTarget(s) == s.JudgeTarget = 1 IN SelectSeq(judgeSpots, isTarget)

\* group.every(s => visited.has(s.ID))
everyVisited(group, visited) ==
  \A i \in 1..Len(group) : group[i].ID \in visited

\* push of computeGameUnlocks: an ID already in the list is not added again.
pushUnlock(unlocks, u) ==
  IF \E i \in 1..Len(unlocks) : unlocks[i].id = u.id THEN unlocks
  ELSE Append(unlocks, u)

\* Faulty variant of pushGroups: a group counts when one of its spots is
\* visited.
RECURSIVE pushGroups_AnyVisited(_, _, _)
pushGroups_AnyVisited(unlocks, groups, visited) ==
  IF groups = <<>> THEN unlocks
  ELSE LET g == Head(groups)
           next == IF Len(g.group) = 0 THEN unlocks
                   ELSE IF \E i \in 1..Len(g.group) : g.group[i].ID \in visited
                     THEN pushUnlock(unlocks, g.unlock)
                   ELSE unlocks
       IN pushGroups_AnyVisited(next, Tail(groups), visited)

\* One loop over groups: an empty group is passed over, a group of which
\* every spot is visited pushes its unlock.
RECURSIVE pushGroups(_, _, _)
pushGroups(unlocks, groups, visited) ==
  IF groups = <<>> THEN unlocks
  ELSE LET g == Head(groups)
           next == IF Len(g.group) = 0 THEN unlocks
                   ELSE IF everyVisited(g.group, visited)
                     THEN pushUnlock(unlocks, g.unlock)
                   ELSE unlocks
       IN pushGroups(next, Tail(groups), visited)

\* The keys of a Map filled in one pass over targets with the trimmed,
\* non-empty value of a field: in the order of their first spot.
RECURSIVE mapKeys(_, _, _)
mapKeys(targets, field, keys) ==
  IF targets = <<>> THEN keys
  ELSE LET k == trim(textOf(Head(targets), field))
       IN mapKeys(Tail(targets), field,
                  IF k = <<>> \/ Includes(keys, k) THEN keys
                  ELSE Append(keys, k))

\* map.get(key): the targets of that key, in order.
mapGet(targets, field, key) ==
  LET has(s) == trim(textOf(s, field)) = key IN SelectSeq(targets, has)

\* Faulty variant of postalPoints: a group of exactly 3, 6, 10 or 20 spots
\* is put in the step above.
postalPoints_StepsExclusive(n) ==
  IF n <= 1 THEN 30
  ELSE IF n < 3 THEN 50
  ELSE IF n < 6 THEN 60
  ELSE IF n < 10 THEN 100
  ELSE IF n < 20 THEN 200
  ELSE 400

postalPoints(n) ==
  IF n <= 1 THEN 30
  ELSE IF n <= 3 THEN 50
  ELSE IF n <= 6 THEN 60
  ELSE IF n <= 10 THEN 100
  ELSE IF n <= 20 THEN 200
  ELSE 400

AchievementUnlock(id, name, points) ==
  [id |-> id, name |-> name, points |-> points]

cityGroups(targets) ==
  LET group(city) ==
        LET in(s) == Includes(textOf(s, "Address"), city)
        IN SelectSeq(targets, in)
      entry(id, city) ==
        [unlock |-> AchievementUnlock(id, << "city", city >>, 2000),
         group |-> group(city)]
  IN << entry(ACH_ID_CITY_IBUSUKI, "ibusuki"),
        entry(ACH_ID_CITY_MINAMIKYUSHU, "minamikyushu"),
        entry(ACH_ID_CITY_MAKURAZAKI, "makurazaki") >>

postalGroups(targets) ==
  LET keys == mapKeys(targets, "PostalCode", <<>>)
  IN [i \in 1..Len(keys) |->
       LET group == mapGet(targets, "PostalCode", keys[i])
       IN [unlock |-> AchievementUnlock(makePostalId(keys[i]),
                                        << "postal" >> \o keys[i],
                                        postalPoints(Len(group))),
           group |-> group]]

categoryGroups(targets) ==
  LET keys == mapKeys(targets, "Category", <<>>)
  IN [i \in 1..Len(keys) |->
       [unlock |-> AchievementUnlock(makeCategoryId(keys[i]),
                                     << "category" >> \o keys[i], 500),
        group |-> mapGet(targets, "Category", keys[i])]]

computeGameUnlocks(p, judgeSpots) ==
  LET visited == SeqToSet(p.visitedSpotIds)
      targets == achTargets(judgeSpots)
      all == IF Len(targets) > 0 /\ everyVisited(targets, visited)
             THEN << AchievementUnlock(ACH_ID_ALL_SPOTS, << "all" >>, 6000) >>
             ELSE <<>>
      city == pushGroups(all, cityGroups(targets), visited)
      postal == pushGroups(city, postalGroups(targets), visited)
  IN pushGroups(postal, categoryGroups(targets), visited)

\* x || d for a number
OrElse(x, d) == IF x = 0 THEN d ELSE x

\* unlocks.reduce((sum, u) => sum + (u.points || 0), 0)
RECURSIVE computeBonus(_)
computeBonus(unlocks) ==
  IF unlocks = <<>> THEN 0
  ELSE computeBonus(SubSeq(unlocks, 1, Len(unlocks) - 1))
         + OrElse(unlocks[Len(unlocks)].points, 0)

\* Faulty variant of computeCumulativeUnlockedIds: the category groups are
\* left out.
computeCumulativeUnlockedIds_NoCategories(everVisitedSpotIds, judgeSpots) ==
  LET targets == achTargets(judgeSpots)
      all == IF Len(targets) > 0 /\ everyVisited(targets, everVisitedSpotIds)
             THEN << AchievementUnlock(ACH_ID_ALL_SPOTS, << "all" >>, 6000) >>
             ELSE <<>>
      city == pushGroups(all, cityGroups(targets), everVisitedSpotIds)
      unlocked == pushGroups(city, postalGroups(targets), everVisitedSpotIds)
  IN [i \in 1..Len(unlocked) |-> unlocked[i].id]

\* computeCumulativeUnlockedIds: the same groups against the spots ever
\* visited; only the IDs are kept.
computeCumulativeUnlockedIds(everVisitedSpotIds, judgeSpots) ==
  LET targets == achTargets(judgeSpots)
      all == IF Len(targets) > 0 /\ everyVisited(targets, everVisitedSpotIds)
             THEN << AchievementUnlock(ACH_ID_ALL_SPOTS, << "all" >>, 6000) >>
             ELSE <<>>
      city == pushGroups(all, cityGroups(targets), everVisitedSpotIds)
      postal == pushGroups(city, postalGroups(targets), everVisitedSpotIds)
      unlocked == pushGroups(postal, categoryGroups(targets),
                             everVisitedSpotIds)
  IN [i \in 1..Len(unlocked) |-> unlocked[i].id]

\* loadAchievementRecords on the stored list.
loadAchievementRecords(stored) ==
  [i \in 1..Len(stored) |->
     [id |-> stored[i].id,
      firstUnlockedAtMs |-> OrElse(stored[i].firstUnlockedAtMs, 0),
      lastUnlockedAtMs |-> OrElse(stored[i].lastUnlockedAtMs, 0),
      unlockCount |-> Max(1, OrElse(stored[i].unlockCount, 1))]]

\* Faulty variant of upsertRecord: a new record is added whether or not the
\* ID has one.
upsertRecord_AlwaysAdds(records, id, nowMs, increment) ==
  Append(records, [id |-> id, firstUnlockedAtMs |-> nowMs,
                   lastUnlockedAtMs |-> nowMs, unlockCount |-> 1])

upsertRecord(records, id, nowMs, increment) ==
  LET found == { i \in 1..Len(records) : records[i].id = id }
  IN IF found = {}
       THEN Append(records, [id |-> id, firstUnlockedAtMs |-> nowMs,
                             lastUnlockedAtMs |-> nowMs, unlockCount |-> 1])
     ELSE LET idx == CHOOSE i \in found : \A j \in found : i <= j
              r == records[idx]
          IN [records EXCEPT ![idx] =
                [r EXCEPT !.lastUnlockedAtMs = nowMs,
                          !.unlockCount = IF increment THEN r.unlockCount + 1
                                          ELSE r.unlockCount]]

RECURSIVE upsertUnlocks(_, _, _)
upsertUnlocks(records, unlocks, nowMs) ==
  IF unlocks = <<>> THEN records
  ELSE upsertUnlocks(upsertRecord(records, Head(unlocks).id, nowMs, TRUE),
                     Tail(unlocks), nowMs)

\* updateRecordsForGameUnlocks: the list stored afterwards.
updateRecordsForGameUnlocks(stored, unlocks, nowMs) ==
  IF Len(unlocks) = 0 THEN stored
  ELSE upsertUnlocks(loadAchievementRecords(stored), unlocks, nowMs)

RECURSIVE ensureIds(_, _, _)
ensureIds(records, unlockedIds, nowMs) ==
  IF unlockedIds = <<>> THEN records
  ELSE LET id == Head(unlockedIds)
           has == \E i \in 1..Len(records) : records[i].id = id
       IN ensureIds(IF has THEN records
                    ELSE upsertRecord(records, id, nowMs, FALSE),
                    Tail(unlockedIds), nowMs)

\* ensureRecordsForCumulative: the list stored afterwards.
ensureRecordsForCumulative(stored, everVisitedSpotIds, judgeSpots, nowMs) ==
  LET unlockedIds == computeCumulativeUnlockedIds(everVisitedSpotIds,
                                                  judgeSpots)
  IN IF Len(unlockedIds) = 0 THEN stored
     ELSE ensureIds(loadAchievementRecords(stored), unlockedIds, nowMs)

\* A spot of the achievement groups.
AchSpot(id, judgeTarget, address, postalCode, category) ==
  [ID |-> id, Name |-> id, Latitude |-> 0, Longitude |-> 0, Score |-> 10,
   JudgeTarget |-> judgeTarget, Address |-> address,
   PostalCode |-> postalCode, Category |-> category]

\* The most times one achievement is unlocked.
MaxUnlockCount == 3

\* The largest postal group.
MaxPostalGroup == 22

\* Five spots: two of one city, postal code and category, one of which has
\* its postal code and category padded with blanks; one of another city with
\* a category of two words; one that is no judge target; one without texts.
WorldAch ==
  [name |-> "ach",
   judgeSpots |->
     << AchSpot("S01", 1, Some(<< "kagoshima", "ibusuki" >>),
                Some(<< "8910" >>), Some(<< "onsen" >>)),
        AchSpot("S02", 1, Some(<< "ibusuki", "yamagawa" >>),
                Some(<< " ", "8910", " " >>), Some(<< "onsen", " " >>)),
        AchSpot("S03", 1, Some(<< "makurazaki" >>), Some(<< " " >>),
                Some(<< "onsen", " ", "spa" >>)),
        AchSpot("S04", 0, Some(<< "ibusuki" >>), Some(<< "8910" >>),
                Some(<< "onsen" >>)),
        AchSpot("S05", 1, Undefined, Undefined, Undefined) >>,
   records |-> <<>>]

\* k spots of one postal code, and one spot of another.
WorldPostal(k) ==
  [name |-> "postal",
   judgeSpots |->
     [i \in 1..(k + 1) |->
        AchSpot(ToString(i), 1, Undefined,
                Some(IF i <= k THEN << "8910" >> ELSE << "8911" >>),
                Undefined)]]

AchWorlds == { WorldAch } \cup { WorldPostal(k) : k \in 0..MaxPostalGroup }

\* The visited lists a game of a world may have: in the small world any
\* spots in any of two orders, in the others the first spots of the master,
\* or all but the first.
VisitChoices(w) ==
  LET ids == [i \in 1..Len(w.judgeSpots) |-> w.judgeSpots[i].ID]
      n == Len(ids)
      reverse(a) == [i \in 1..Len(a) |-> a[Len(a) + 1 - i]]
  IN IF w.name = "ach"
       THEN { Pick(ids, I) : I \in SUBSET (1..n) }
              \cup { reverse(Pick(ids, I)) : I \in SUBSET (1..n) }
              \cup { << "S99" >> \o ids }
     ELSE { SubSeq(ids, 1, m) : m \in { 0, n - 1, n } \cap (0..n) }
            \cup { SubSeq(ids, 2, n) }

\* A game of the world with the given visited list.
GameWith(visitedSpotIds) ==
  [startNewGame([durationMin |-> 15, jrEnabled |-> FALSE, cpCount |-> 0,
                 start |-> LatLng(0, 0), goal |-> LatLng(0, 0)], <<>>, T0)
     EXCEPT !.visitedSpotIds = visitedSpotIds]

InitAch ==
  /\ world \in AchWorlds
  /\ now = T0
  /\ \E v \in VisitChoices(world) : progress = GameWith(v)
  /\ call = <<>>
  /\ result = <<>>

\* computeGameUnlocks on the game.
ComputeGameUnlocks ==
  /\ result = <<>>
  /\ call' = [op |-> "computeGameUnlocks", t |-> now]
  /\ result' = [unlocks |-> computeGameUnlocks(progress, world.judgeSpots)]
  /\ UNCHANGED << world, now, progress >>

\* computeBonus on the unlocks of the game.
ComputeBonus ==
  /\ result # <<>>
  /\ DOMAIN result = { "unlocks" }
  /\ call' = [op |-> "computeBonus", t |-> now]
  /\ result' = [unlocks |-> result.unlocks,
                bonus |-> computeBonus(result.unlocks)]
  /\ UNCHANGED << world, now, progress >>

\* updateRecordsForGameUnlocks with the unlocks of the game.
UpdateRecordsForGameUnlocks ==
  /\ "records" \in DOMAIN world
  /\ result # <<>>
  /\ call.op # "updateRecordsForGameUnlocks"
  /\ \A i \in 1..Len(world.records) :
       world.records[i].unlockCount < MaxUnlockCount
  /\ call' = [op |-> "updateRecordsForGameUnlocks", t |-> now]
  /\ world' = [world EXCEPT !.records =
                 updateRecordsForGameUnlocks(world.records, result.unlocks,
                                             now)]
  /\ UNCHANGED << now, progress, result >>

\* The spots ever visited on the device, which hold those of the game.
EverChoices ==
  LET ids == { world.judgeSpots[i].ID : i \in 1..Len(world.judgeSpots) }
      mine == SeqToSet(progress.visitedSpotIds)
  IN { mine, mine \cup { "S01", "S02" }, mine \cup { "S03" }, ids }

\* ensureRecordsForCumulative with the spots ever visited.
EnsureRecordsForCumulative ==
  /\ "records" \in DOMAIN world
  /\ call # <<>>
  /\ call.op # "ensureRecordsForCumulative"
  /\ \E ever \in EverChoices :
       /\ call' = [op |-> "ensureRecordsForCumulative", t |-> now,
                   ever |-> ever]
       /\ world' = [world EXCEPT !.records =
                      ensureRecordsForCumulative(world.records, ever,
                                                 world.judgeSpots, now)]
  /\ UNCHANGED << now, progress, result >>

\* Another game is played, later.
NextGame ==
  /\ "records" \in DOMAIN world
  /\ call # <<>>
  /\ now + 2 * StepMs <= MaxNow
  /\ now' = now + 2 * StepMs
  /\ \E v \in { << >>, << "S01", "S02" >>, << "S03", "S05" >> } :
       progress' = GameWith(v)
  /\ call' = <<>>
  /\ result' = <<>>
  /\ UNCHANGED world

NextAch ==
  \/ ComputeGameUnlocks
  \/ ComputeBonus
  \/ UpdateRecordsForGameUnlocks
  \/ EnsureRecordsForCumulative
  \/ NextGame

\* The achievement engine on its own.
SpecAch == InitAch /\ [][NextAch]_vars

\* ------------------------------------------------------------------------
\* PlayPage: the check-in handlers, the abandon timer and the debug edits
\* ------------------------------------------------------------------------
\* Overtime grace: graceEnd = plannedEnd + 60 * 60_000.
GraceMs == 60 * 60000

graceEndMs(p) == p.startedAtMs + p.config.durationMin * 60000 + GraceMs

\* A checkpoint spot next to the goal and a spot far off, no rail line, one
\* place to stand; the clock is read at the start, at the end of the grace
\* time and a second later.  The page holds the busy flag, the
\* handlers that await their location fix (each with the progress it read
\* when it was invoked), whether it is mounted, and what its last event did.
WorldPlay ==
  [name |-> "play",
   judgeSpots |-> << Spot("S01", 0, 10, 50, Undefined),
                     Spot("S02", 0, 950, 20, Undefined) >>,
   stations |-> <<>>,
   fixes |-> { LocationFix(0, 0, 20) },
   goal |-> LatLng(0, 0),
   jr |-> { FALSE },
   cpChoices |-> { << "S01" >> },
   times |-> { T0, T0 + 15 * 60000 + GraceMs,
               T0 + 15 * 60000 + GraceMs + 1000 },
   checkInBusy |-> FALSE,
   inflight |-> <<>>,
   mounted |-> TRUE,
   event |-> <<>>]

InitPlay ==
  /\ world = WorldPlay
  /\ now = T0
  /\ \E jr \in world.jr, cps \in world.cpChoices :
       progress = startNewGame([durationMin |-> 15, jrEnabled |-> jr,
                                cpCount |-> Len(cps),
                                start |-> world.goal, goal |-> world.goal],
                               cps, T0)
  /\ call = <<>>
  /\ result = <<>>

\* getCurrentFix(12000): a handler has its fix, or none, within 12 s.
FixTimeoutMs == 12000

\* The handlers that may await a fix at once in the model.
MaxInFlight == 2

\* The page is unmounted: its state is gone, and the handlers in flight keep
\* running with the setters of a component that is no longer there.
Unmounted(w) ==
  [w EXCEPT !.mounted = FALSE,
            !.checkInBusy = FALSE,
            !.inflight = [k \in DOMAIN @ |-> [@[k] EXCEPT !.stale = TRUE]]]

\* setInterval(() => setNowMs(Date.now()), 1000): the clock moves on, no
\* further than the handlers in flight can wait.
PlayTick ==
  /\ \E t \in world.times :
       /\ t > now
       /\ \A k \in 1..Len(world.inflight) :
            t <= world.inflight[k].at + FixTimeoutMs
       /\ now' = t
  /\ world' = [world EXCEPT !.event = [kind |-> "tick"]]
  /\ UNCHANGED << progress, call, result >>

\* abandonGameNow on the stored progress p at clock reading t.
abandonGameNow(p, t) ==
  [p EXCEPT !.endedAtMs = Some(t), !.endReason = Some("ABANDONED")]

\* The head of onCheckIn, onJrBoard, onJrAlight and onGoal, up to
\* setCheckInBusy(true): what the invocation does.
handlerEntry(busy, online, p, t) ==
  IF busy THEN "busy"
  ELSE IF ~online THEN "offline"
  ELSE IF Truthy(p.endedAtMs) THEN "ended"
  ELSE IF t > graceEndMs(p) THEN "abandon"
  ELSE "started"

\* The check-in buttons the page shows: those of the rail line only in a
\* game with the rail line.
Buttons(p) ==
  { "checkInSpotOrCp", "goalCheckIn" }
    \cup (IF p.config.jrEnabled THEN { "jrBoard", "jrAlight" } ELSE {})

\* A check-in button is pressed.  The handler reads checkInBusy and progress
\* as last rendered; React renders the updates of a click before the next
\* event is handled.
PlayClick ==
  /\ world.mounted
  /\ \E op \in Buttons(progress), online \in BOOLEAN :
       LET outcome == handlerEntry(world.checkInBusy, online, progress, now)
           ev == [kind |-> "click", op |-> op, outcome |-> outcome]
       IN CASE outcome = "abandon"
                 -> /\ progress' = abandonGameNow(progress, now)
                    /\ world' = [Unmounted(world) EXCEPT !.event = ev]
            [] outcome = "started"
                 -> /\ Len(world.inflight) < MaxInFlight
                    /\ progress' = progress
                    /\ world' = [world EXCEPT
                                   !.checkInBusy = TRUE,
                                   !.inflight =
                                     Append(@, [op |-> op, at |-> now,
                                                progress |-> progress,
                                                stale |-> FALSE]),
                                   !.event = ev]
            [] OTHER
                 -> /\ progress' = progress
                    /\ world' = [world EXCEPT !.event = ev]
  /\ UNCHANGED << now, call, result >>

\* The engine function a handler calls.
engineCall(op, p, fix, t) ==
  LET loc == LatLng(fix.lat, fix.lng)
  IN CASE op = "checkInSpotOrCp"
            -> checkInSpotOrCp(p, loc, fix.accuracy, world.judgeSpots, t)
       [] op = "jrBoard" -> jrBoard(p, loc, fix.accuracy, world.stations, t)
       [] op = "jrAlight" -> jrAlight(p, loc, fix.accuracy, world.stations, t)
       [] op = "goalCheckIn" -> goalCheckIn(p, loc, fix.accuracy, t)

\* finally { setCheckInBusy(false) }: the flag of the component the handler
\* belongs to is cleared; the setter of an unmounted component does nothing.
handlerExit(busy, stale) == IF stale THEN busy ELSE FALSE

\* doFix of a handler in flight returns without a fix: the handler leaves.
PlayNoFix ==
  /\ \E k \in 1..Len(world.inflight) :
       world' = [world EXCEPT
                   !.checkInBusy = handlerExit(@, world.inflight[k].stale),
                   !.inflight = Splice(@, k - 1),
                   !.event = [kind |-> "nofix",
                              op |-> world.inflight[k].op,
                              stale |-> world.inflight[k].stale]]
  /\ UNCHANGED << now, progress, call, result >>

\* doFix of a handler in flight returns a fix: the handler calls the engine
\* with the progress it read on entry and, on success, stores the result.
PlayFix ==
  /\ \E k \in 1..Len(world.inflight), fix \in world.fixes :
       LET h == world.inflight[k]
           r == engineCall(h.op, h.progress, fix, now)
       IN /\ call' = [op |-> h.op, loc |-> LatLng(fix.lat, fix.lng),
                      accuracy |-> fix.accuracy, t |-> now]
          /\ result' = r
          /\ progress' = IF r.ok THEN r.progress ELSE progress
          /\ world' = LET w == [world EXCEPT
                                  !.checkInBusy = handlerExit(@, h.stale),
                                  !.inflight = Splice(@, k - 1),
                                  !.event = [kind |-> "fix", op |-> h.op,
                                             stale |-> h.stale]]
                       IN IF r.ok /\ h.op = "goalCheckIn"
                            THEN Unmounted(w) ELSE w
  /\ UNCHANGED now

\* The effect on nowMs: past the grace time a game that has not ended is
\* abandoned, and the page is left.
PlayAbandonTimer ==
  /\ world.mounted
  /\ ~Truthy(progress.endedAtMs)
  /\ now > graceEndMs(progress)
  /\ progress' = abandonGameNow(progress, now)
  /\ world' = [Unmounted(world) EXCEPT !.event = [kind |-> "abandonTimer"]]
  /\ UNCHANGED << now, call, result >>

\* The page is left by the home link of the header.
PlayLeave ==
  /\ world.mounted
  /\ world' = [Unmounted(world) EXCEPT !.event = [kind |-> "leave"]]
  /\ UNCHANGED << now, progress, call, result >>

\* The page is opened again (resume on the home page, then the load effect):
\* an ended game is shown elsewhere, a game past its grace time is abandoned,
\* any other is resumed by a new component, whose busy flag is not set.
PlayMount ==
  /\ ~world.mounted
  /\ ~Truthy(progress.endedAtMs)
  /\ IF now > graceEndMs(progress)
       THEN /\ progress' = abandonGameNow(progress, now)
            /\ world' = [world EXCEPT !.event = [kind |-> "mount"]]
     ELSE /\ progress' = progress
          /\ world' = [world EXCEPT !.mounted = TRUE,
                                    !.checkInBusy = FALSE,
                                    !.event = [kind |-> "mount"]]
  /\ UNCHANGED << now, call, result >>

\* debugShiftTimerMin
debugShiftTimerMin(p, deltaMin, t) ==
  LET newStart == p.startedAtMs + deltaMin * 60000
  IN [p EXCEPT !.startedAtMs = IF newStart > t THEN t ELSE newStart]

\* The debug timer is moved by an hour: back, and forth again.
PlayDebugTimer ==
  /\ world.mounted
  /\ \E deltaMin \in { -60, 60 } :
       /\ progress.startedAtMs + deltaMin * 60000 >= T0 - 60 * 60000
       /\ progress.startedAtMs + deltaMin * 60000 <= T0
       /\ progress' = debugShiftTimerMin(progress, deltaMin, now)
  /\ world' = [world EXCEPT !.event = [kind |-> "debugTimer"]]
  /\ UNCHANGED << now, call, result >>

\* A checkpoint marker is dragged on the mounted page.
PlayCpDrag == world.mounted /\ CpDrag

NextPlay ==
  \/ PlayTick
  \/ PlayClick
  \/ PlayNoFix
  \/ PlayFix
  \/ PlayAbandonTimer
  \/ PlayLeave
  \/ PlayMount
  \/ PlayDebugTimer
  \/ PlayCpDrag

\* PlayPage with its handlers in flight.
SpecPlay == InitPlay /\ [][NextPlay]_vars

\* PlayPage with its timer running whenever it is mounted, and the app
\* opened again whenever it was left.
SpecPlayLive ==
  SpecPlay /\ WF_vars(PlayAbandonTimer) /\ WF_vars(PlayMount)

\* ------------------------------------------------------------------------
\* The routes: HomePage, PlayPage and ResultPage with their load effects
\* ------------------------------------------------------------------------
\* loadGame() finds nothing stored.
NoGame == <<>>

\* HomePage, the load effect: the stored game after it, and whether the
\* resume button is enabled.
homeLoad(g, t) ==
  IF g = NoGame THEN [progress |-> g, hasGame |-> FALSE]
  ELSE IF ~Truthy(g.endedAtMs) /\ t > graceEndMs(g)
    THEN [progress |-> abandonGameNow(g, t), hasGame |-> FALSE]
  ELSE [progress |-> g, hasGame |-> ~Truthy(g.endedAtMs)]

\* HomePage.onResume: the route it navigates to, if any.
onResume(g) ==
  IF g = NoGame THEN Undefined
  ELSE IF Truthy(g.endedAtMs) THEN Undefined
  ELSE Some("/play")

\* PlayPage, the load effect: the stored game after it, the route it
\* navigates to, if any, and whether the master data are loaded.
playLoad(g, t) ==
  IF g = NoGame THEN [progress |-> g, nav |-> Some("/"), master |-> FALSE]
  ELSE IF Truthy(g.endedAtMs)
    THEN IF g.endReason = Some("ABANDONED")
           THEN [progress |-> g, nav |-> Some("/"), master |-> FALSE]
         ELSE [progress |-> g, nav |-> Some("/result"), master |-> FALSE]
  ELSE IF t > graceEndMs(g)
    THEN [progress |-> abandonGameNow(g, t), nav |-> Some("/"),
          master |-> FALSE]
  ELSE [progress |-> g, nav |-> Undefined, master |-> TRUE]

\* ResultPage, the load effect: the route it navigates to, if any, and
\* whether the result is shown.
resultLoad(g) ==
  IF g = NoGame \/ ~Truthy(g.endedAtMs)
    THEN [nav |-> Some("/"), loaded |-> FALSE]
  ELSE IF g.endReason = Some("ABANDONED")
    THEN [nav |-> Some("/"), loaded |-> FALSE]
  ELSE [nav |-> Undefined, loaded |-> TRUE]

\* The route is opened with the stored game g at clock reading t: the load
\* effect of its page runs, and that of the page it navigates to.
Landing(route, g, t) ==
  LET home(g2) == [page |-> "/", progress |-> homeLoad(g2, t).progress,
                   hasGame |-> homeLoad(g2, t).hasGame,
                   master |-> FALSE, loaded |-> FALSE]
      shown(g2) == IF resultLoad(g2).nav = Undefined
                     THEN [page |-> "/result", progress |-> g2,
                           hasGame |-> FALSE, master |-> FALSE,
                           loaded |-> TRUE]
                   ELSE home(g2)
      play == playLoad(g, t)
  IN CASE route = "/" -> home(g)
       [] route = "/result" -> shown(g)
       [] route = "/play"
            -> IF play.nav = Undefined
                 THEN [page |-> "/play", progress |-> g, hasGame |-> FALSE,
                       master |-> TRUE, loaded |-> FALSE]
               ELSE IF play.nav = Some("/result") THEN shown(play.progress)
               ELSE home(play.progress)

\* The store is written while page w.page is shown: the load effects of
\* PlayPage and ResultPage depend on progress and run again, that of
\* HomePage does not.
Rerun(w, g, t) ==
  IF w.page = "/"
    THEN [page |-> "/", progress |-> g, hasGame |-> w.hasGame,
          master |-> FALSE, loaded |-> FALSE]
  ELSE Landing(w.page, g, t)

\* The pages after landing l: a PlayPage that is left loses its busy flag,
\* and its handlers in flight go on without it.
Arrive(w, l, ev) ==
  LET stay == w.page = "/play" /\ l.page = "/play"
      base == IF stay THEN w
              ELSE [w EXCEPT
                      !.checkInBusy = FALSE,
                      !.inflight = [k \in DOMAIN @ |->
                                      [@[k] EXCEPT !.stale = TRUE]]]
  IN [base EXCEPT !.page = l.page, !.hasGame = l.hasGame,
                  !.master = l.master, !.loaded = l.loaded,
                  !.wasEnded = @ \/ Truthy(l.progress.endedAtMs),
                  !.event = ev]

\* One checkpoint spot next to the goal; the clock is read at the start, a
\* second later and past the grace time.  HomePage is shown with the resume
\* button as its load effect left it; wasEnded records that the stored
\* game has had endedAtMs set.
WorldNav ==
  [name |-> "nav",
   judgeSpots |-> << Spot("S01", 0, 10, 50, Undefined) >>,
   stations |-> <<>>,
   fixes |-> { LocationFix(0, 0, 20) },
   goal |-> LatLng(0, 0),
   times |-> { T0, T0 + 1000, T0 + 15 * 60000 + GraceMs + 1000 },
   page |-> "/",
   hasGame |-> TRUE,
   master |-> FALSE,
   loaded |-> FALSE,
   checkInBusy |-> FALSE,
   inflight |-> <<>>,
   wasEnded |-> FALSE,
   event |-> <<>>]

InitNav ==
  /\ world = WorldNav
  /\ now = T0
  /\ progress = startNewGame([durationMin |-> 15, jrEnabled |-> FALSE,
                              cpCount |-> 1,
                              start |-> world.goal, goal |-> world.goal],
                             << "S01" >>, T0)
  /\ call = <<>>
  /\ result = <<>>

\* The clock moves on, no further than the handlers in flight can wait.
NavTick ==
  /\ \E t \in world.times :
       /\ t > now
       /\ \A k \in 1..Len(world.inflight) :
            t <= world.inflight[k].at + FixTimeoutMs
       /\ now' = t
  /\ world' = [world EXCEPT !.event = [kind |-> "tick"]]
  /\ UNCHANGED << progress, call, result >>

\* The home link of the header.
NavHome ==
  /\ world.page # "/"
  /\ LET l == Landing("/", progress, now)
     IN /\ progress' = l.progress
        /\ world' = Arrive(world, l, [kind |-> "home"])
  /\ UNCHANGED << now, call, result >>

\* The resume button of HomePage, which is disabled without hasGame.
NavResume ==
  /\ world.page = "/"
  /\ world.hasGame
  /\ LET to == onResume(progress)
         l == IF to = Undefined
                THEN Rerun(world, progress, now)
              ELSE Landing(to[1], progress, now)
     IN /\ progress' = l.progress
        /\ world' = Arrive(world, l, [kind |-> "resume"])
  /\ UNCHANGED << now, call, result >>

\* /play or /result is opened by its address or by the link of HomePage.
NavOpen ==
  /\ \E route \in { "/play", "/result" } :
       /\ world.page # route
       /\ LET l == Landing(route, progress, now)
          IN /\ progress' = l.progress
             /\ world' = Arrive(world, l, [kind |-> "open", route |-> route])
  /\ UNCHANGED << now, call, result >>

\* A check-in button of PlayPage is pressed.
NavClick ==
  /\ world.page = "/play"
  /\ \E op \in { "checkInSpotOrCp", "goalCheckIn" } :
       LET outcome == handlerEntry(world.checkInBusy, TRUE, progress, now)
           ev == [kind |-> "click", op |-> op, outcome |-> outcome]
       IN CASE outcome = "abandon"
                 -> LET g == abandonGameNow(progress, now)
                    IN /\ progress' = Landing("/", g, now).progress
                       /\ world' = Arrive(world, Landing("/", g, now), ev)
            [] outcome = "started"
                 -> /\ Len(world.inflight) < MaxInFlight
                    /\ progress' = progress
                    /\ world' = [world EXCEPT
                                   !.checkInBusy = TRUE,
                                   !.inflight =
                                     Append(@, [op |-> op, at |-> now,
                                                progress |-> progress,
                                                stale |-> FALSE]),
                                   !.event = ev]
            [] OTHER
                 -> /\ progress' = progress
                    /\ world' = [world EXCEPT !.event = ev]
  /\ UNCHANGED << now, call, result >>

\* A handler in flight has its fix, or none: with a fix it calls the engine
\* with the progress it read on entry and stores a success; after a goal
\* it navigates to /result.
NavFix ==
  /\ \E k \in 1..Len(world.inflight), fix \in world.fixes \cup { NoGame } :
       LET h == world.inflight[k]
           w == [world EXCEPT
                   !.checkInBusy = handlerExit(@, h.stale),
                   !.inflight = Splice(@, k - 1)]
           ev == [kind |-> IF fix = NoGame THEN "nofix" ELSE "fix",
                  op |-> h.op, stale |-> h.stale]
       IN IF fix = NoGame
            THEN /\ world' = [w EXCEPT !.event = ev]
                 /\ UNCHANGED << progress, call, result >>
          ELSE LET r == engineCall(h.op, h.progress, fix, now)
                   l == IF r.ok /\ h.op = "goalCheckIn"
                          THEN Landing("/result", r.progress, now)
                        ELSE Rerun(w, r.progress, now)
               IN /\ call' = [op |-> h.op, loc |-> LatLng(fix.lat, fix.lng),
                              accuracy |-> fix.accuracy, t |-> now]
                  /\ result' = r
                  /\ IF r.ok
                       THEN /\ progress' = l.progress
                            /\ world' = Arrive(w, l, ev)
                     ELSE /\ progress' = progress
                          /\ world' = [w EXCEPT !.event = ev]
  /\ UNCHANGED now

\* PlayPage, the effect on nowMs: past the grace time the game is abandoned
\* and the page is left for HomePage.
NavAbandonTimer ==
  /\ world.page = "/play"
  /\ ~Truthy(progress.endedAtMs)
  /\ now > graceEndMs(progress)
  /\ LET l == Landing("/", abandonGameNow(progress, now), now)
     IN /\ progress' = l.progress
        /\ world' = Arrive(world, l, [kind |-> "abandonTimer"])
  /\ UNCHANGED << now, call, result >>

NextNav ==
  \/ NavTick
  \/ NavHome
  \/ NavResume
  \/ NavOpen
  \/ NavClick
  \/ NavFix
  \/ NavAbandonTimer

\* The three pages of a game and the handlers of PlayPage in flight.
SpecNav == InitNav /\ [][NextNav]_vars

TypeOK ==
  /\ now \in T0..MaxNow
  /\ progress.score \in Int

\* ------------------------------------------------------------------------
\* Vocabulary of the properties
\* ------------------------------------------------------------------------
Ended(p) == Truthy(p.endedAtMs)

Boarded(p) == TruthyStr(p.boardedStationId)

Called(c, op) == c # <<>> /\ c.op = op

FailedWith(r, code) == r # <<>> /\ ~r.ok /\ r.code = code

Succeeded(r) == r # <<>> /\ r.ok

CheckInOps == { "checkInSpotOrCp", "jrBoard", "jrAlight", "goalCheckIn" }

\* The common preconditions of every check-in operation.
PassesCommon(p, accuracy) == ~Ended(p) /\ accuracy <= MAX_ACCURACY_M

\* ------------------------------------------------------------------------
\* C1..C10
\* ------------------------------------------------------------------------

\* C1: once a goal check-in has ended the game, every call of the four
\* check-in operations, at every location, accuracy and time, fails with
\* GAME_ENDED and leaves the whole snapshot (score, penalty, visitedSpotIds,
\* reachedCpIds, scoredStationIds, endedAtMs, ...) as it was.
C1_TerminalAfterGoal ==
  [][(Ended(progress) /\ progress.endReason = Some("GOAL"))
       => /\ call'.op \in CheckInOps
          /\ FailedWith(result', "GAME_ENDED")
          /\ progress' = progress]_vars

\* A jrAlight was refused on a game that a goal check-in had ended.
C1_Witness ==
  /\ progress.endReason = Some("GOAL")
  /\ Ended(progress)
  /\ Called(call, "jrAlight")
  /\ FailedWith(result, "GAME_ENDED")
  /\ call.t > progress.endedAtMs[1]

\* C2: whenever a check-in operation returns ok:false the result carries no
\* progress and the stored snapshot is unchanged in every field: the game
\* state changes only on an ok:true result.
C2_FailureKeepsProgress ==
  [][/\ (~result'.ok => "progress" \notin DOMAIN result' /\ progress' = progress)
     /\ (progress' # progress => result'.ok /\ progress' = result'.progress)]_vars

\* An IN_TRAIN refusal, the one failure that comes after target selection.
C2_Witness ==
  /\ FailedWith(result, "IN_TRAIN")
  /\ "progress" \notin DOMAIN result
  /\ Boarded(progress)

\* The target of a spot check-in at loc on snapshot p (<<>>: none in range).
TargetOf(p, loc) ==
  pickSpotCandidateWithDenseCluster(p, loc, world.judgeSpots,
                                    DENSE_SPOT_DISTANCE_M)

\* C3: a successful checkInSpotOrCp with target s leaves s.ID in
\* visitedSpotIds, adds s.Score to score when s.ID was not visited before and
\* 0 when it was, and returns kind CP exactly when s.ID is in cpSpotIds (then
\* s.ID is in reachedCpIds afterwards), otherwise SPOT.
C3_SpotScoring ==
  [][(call'.op = "checkInSpotOrCp" /\ result'.ok)
       => LET s == TargetOf(progress, call'.loc)[1].spot
              wasVisited == s.ID \in SeqToSet(progress.visitedSpotIds)
          IN /\ s.ID \in SeqToSet(progress'.visitedSpotIds)
             /\ progress'.score =
                  progress.score + (IF wasVisited THEN 0 ELSE s.Score)
             /\ result'.message.add = progress'.score - progress.score
             /\ (result'.kind = "CP") <=> (s.ID \in SeqToSet(progress.cpSpotIds))
             /\ result'.kind \in { "CP", "SPOT" }
             /\ result'.kind = "CP"
                  => s.ID \in SeqToSet(progress'.reachedCpIds)]_vars

\* A checkpoint was checked in for the first time and credited its Score.
C3_Witness ==
  /\ Called(call, "checkInSpotOrCp")
  /\ Succeeded(result)
  /\ result.kind = "CP"
  /\ result.message.add > 0
  /\ progress.score >= result.message.add
  /\ result.message.name \in SeqToSet(progress.reachedCpIds)

\* C4: a second checkInSpotOrCp made right after a successful one at the same
\* location, and targeting the spot the first one visited, succeeds with +0
\* and leaves visitedSpotIds, reachedCpIds and score as the first call left
\* them.
C4_RepeatIsIdempotent ==
  [][(/\ Called(call, "checkInSpotOrCp") /\ Succeeded(result)
      /\ call'.op = "checkInSpotOrCp"
      /\ call'.loc = call.loc
      /\ call'.accuracy <= MAX_ACCURACY_M
      /\ TargetOf(progress, call'.loc) # Undefined
      /\ TargetOf(progress, call'.loc)[1].spot.Name = result.message.name)
       => /\ result'.ok
          /\ result'.message.add = 0
          /\ progress'.visitedSpotIds = progress.visitedSpotIds
          /\ progress'.reachedCpIds = progress.reachedCpIds
          /\ progress'.score = progress.score]_vars

\* S04, which is reached from one place only, has been checked in there a
\* second time: the first check-in credited its 50 points, this one nothing.
C4_Witness ==
  /\ Called(call, "checkInSpotOrCp")
  /\ Succeeded(result)
  /\ result.message.add = 0
  /\ progress.score > 0
  /\ world.name = "tie"
  /\ result.message.name = "S04"
  /\ progress.visitedSpotIds = << "S04" >>
  /\ progress.score = 50

\* C5: no step of a game removes an element from visitedSpotIds,
\* reachedCpIds or scoredStationIds, so each is a superset of its value in
\* every earlier state.
C5_SetsOnlyGrow ==
  [][/\ SeqToSet(progress.visitedSpotIds) \subseteq SeqToSet(progress'.visitedSpotIds)
     /\ SeqToSet(progress.reachedCpIds) \subseteq SeqToSet(progress'.reachedCpIds)
     /\ SeqToSet(progress.scoredStationIds)
          \subseteq SeqToSet(progress'.scoredStationIds)]_vars

\* A second ride has been scored on top of a first one, with spots and a
\* checkpoint visited.
C5_Witness ==
  /\ Len(progress.scoredStationIds) = 4
  /\ Len(progress.visitedStationEvents) = 4
  /\ Len(progress.visitedSpotIds) = 2
  /\ Len(progress.reachedCpIds) = 1

\* C6: on a game that has not ended each of the four operations fails with
\* ACCURACY_TOO_BAD whenever the accuracy is above 100 m, whatever the
\* location, JR setting, cooldown or boarding state; an accuracy of exactly
\* 100 m (or less) is never rejected for accuracy; on an ended game
\* GAME_ENDED is returned even when the accuracy is above 100 m.
C6_AccuracyGate ==
  [][/\ call'.op \in CheckInOps
     /\ (~Ended(progress) /\ call'.accuracy > MAX_ACCURACY_M)
          => result' = Fail("ACCURACY_TOO_BAD", [accuracy |-> call'.accuracy])
     /\ call'.accuracy <= MAX_ACCURACY_M
          => ~FailedWith(result', "ACCURACY_TOO_BAD")
     /\ Ended(progress) => FailedWith(result', "GAME_ENDED")]_vars

\* A jrBoard was refused for accuracy while a boarding was open and the
\* cooldown was running.
C6_Witness ==
  /\ Called(call, "jrBoard")
  /\ FailedWith(result, "ACCURACY_TOO_BAD")
  /\ Boarded(progress)
  /\ call.t < progress.cooldownUntilMs[1]

\* Squared distance from loc to the i-th judge spot / station of the world.
SpotDist(loc, i) ==
  haversineMetersSq(loc, LatLng(world.judgeSpots[i].Latitude,
                                world.judgeSpots[i].Longitude))

StationDist(loc, i) ==
  haversineMetersSq(loc, LatLng(world.stations[i].lat, world.stations[i].lng))

\* Indices of the judge spots / stations within 50 m (inclusive) of loc.
SpotsInRange(loc) ==
  { i \in 1..Len(world.judgeSpots) : SpotDist(loc, i) <= 50 * 50 }

StationsInRange(loc) ==
  { i \in 1..Len(world.stations) : StationDist(loc, i) <= 50 * 50 }

\* Spot i comes before spot j: nearer, or as near with a higher Score, or as
\* near with the same Score and the smaller ID.
SpotPrecedes(loc, i, j) ==
  LET a == world.judgeSpots[i]
      b == world.judgeSpots[j]
  IN \/ SpotDist(loc, i) < SpotDist(loc, j)
     \/ SpotDist(loc, i) = SpotDist(loc, j) /\ a.Score > b.Score
     \/ /\ SpotDist(loc, i) = SpotDist(loc, j)
        /\ a.Score = b.Score
        /\ Rank(a.ID) < Rank(b.ID)

\* m is the first of the spots M in that order.
IsFirstSpot(loc, m, M) ==
  m \in M /\ \A i \in M \ { m } : SpotPrecedes(loc, m, i)

\* C7: a checkInSpotOrCp that passes the common preconditions fails with
\* NO_SPOT exactly when no judge spot lies within 50 m (inclusive) of the
\* location; otherwise its base candidate is the in-range spot that is first
\* by (distance ascending, Score descending, ID ascending), so of two
\* equidistant candidates of equal Score the one with the smaller ID is taken.
C7_BaseCandidate ==
  [][call'.op = "checkInSpotOrCp"
       => LET loc == call'.loc
              sorted == sortedSpotCandidates(world.judgeSpots, loc)
          IN /\ PassesCommon(progress, call'.accuracy)
                  => (FailedWith(result', "NO_SPOT") <=> SpotsInRange(loc) = {})
             /\ FailedWith(result', "NO_SPOT") => SpotsInRange(loc) = {}
             /\ (sorted = <<>>) <=> (SpotsInRange(loc) = {})
             /\ sorted # <<>>
                  => \E b \in SpotsInRange(loc) :
                       /\ IsFirstSpot(loc, b, SpotsInRange(loc))
                       /\ sorted[1].spot = world.judgeSpots[b]
                       /\ sorted[1].dist = SpotDist(loc, b)]_vars

\* At (5, 0) S02 and S03 are equidistant with equal Score, and the check-in
\* took S02.
C7_Witness ==
  /\ world.name = "tie"
  /\ Called(call, "checkInSpotOrCp")
  /\ call.loc = LatLng(5, 0)
  /\ Succeeded(result)
  /\ result.message.name = "S02"
  /\ result.message.add = 20

\* Two judge spots are linked when they are at most 3 m apart.
SpotsLinked(i, j) ==
  haversineMetersSq(LatLng(world.judgeSpots[i].Latitude,
                           world.judgeSpots[i].Longitude),
                    LatLng(world.judgeSpots[j].Latitude,
                           world.judgeSpots[j].Longitude)) <= 3 * 3

\* The spots of R reachable from S through chains of linked spots of R.
RECURSIVE ChainClosure(_, _)
ChainClosure(S, R) ==
  LET more == S \cup { j \in R : \E i \in S : SpotsLinked(i, j) }
  IN IF more = S THEN S ELSE ChainClosure(more, R)

\* The index of the spot the dense-cluster rule designates at loc, given the
\* visited IDs (loc has a spot in range).
DenseTarget(visited, loc) ==
  LET R == SpotsInRange(loc)
      base == CHOOSE b \in R : IsFirstSpot(loc, b, R)
      C == ChainClosure({ base }, R)
      U == { i \in C : world.judgeSpots[i].ID \notin visited }
  IN IF Cardinality(C) = 1 THEN base
     ELSE IF U # {} THEN CHOOSE m \in U : IsFirstSpot(loc, m, U)
     ELSE CHOOSE m \in C : IsFirstSpot(loc, m, C)

\* C8: the target of checkInSpotOrCp is the base candidate when the set C of
\* in-range candidates chained to it by links of at most 3 m has one member;
\* otherwise it is the first unvisited member of C in the order (distance
\* ascending, Score descending, ID ascending), or the first member of C when
\* all are visited.  Only spots within 50 m of the location join or link C.
C8_DenseClusterTarget ==
  [][(call'.op = "checkInSpotOrCp" /\ SpotsInRange(call'.loc) # {})
       => LET want == world.judgeSpots[
                        DenseTarget(SeqToSet(progress.visitedSpotIds), call'.loc)]
              got == TargetOf(progress, call'.loc)
          IN /\ got # Undefined
             /\ got[1].spot = want
             /\ result'.ok => result'.message.name = want.Name
             /\ result'.ok => want.ID \in SeqToSet(progress'.visitedSpotIds)]_vars

\* At the origin of the chain world S03, the farthest member of the chain
\* S01 - S02 - S03, was taken after S01 and S02, although S01 is nearer and
\* the lone spot S04 is nearer and unvisited.
C8_Witness ==
  /\ world.name = "cluster"
  /\ Called(call, "checkInSpotOrCp")
  /\ call.loc = LatLng(0, 0)
  /\ Succeeded(result)
  /\ result.message.name = "S03"
  /\ result.message.add = 30
  /\ progress.visitedSpotIds = << "S01", "S02", "S03" >>

\* The judge spot of the world with the given ID.
SpotById(id) ==
  CHOOSE sp \in SeqToSet(world.judgeSpots) : sp.ID = id

IsStationSpot(sp) == sp.Category = << "EKI" >>

\* C9: while boardedStationId is set, a checkInSpotOrCp whose target is not
\* a station-category spot fails with IN_TRAIN and changes nothing, and no
\* checkInSpotOrCp succeeds with such a target; every spot that enters
\* visitedSpotIds while a boarding is open is a station-category spot.
C9_InTrainOnlyStationSpots ==
  [][Boarded(progress)
       => /\ \A id \in SeqToSet(progress'.visitedSpotIds)
                         \ SeqToSet(progress.visitedSpotIds) :
                IsStationSpot(SpotById(id))
          /\ call'.op = "checkInSpotOrCp"
               => LET tgt == TargetOf(progress, call'.loc)
                  IN /\ result'.ok => IsStationSpot(tgt[1].spot)
                     /\ (/\ PassesCommon(progress, call'.accuracy)
                         /\ tgt # Undefined
                         /\ ~IsStationSpot(tgt[1].spot))
                          => /\ result' = Fail("IN_TRAIN", <<>>)
                             /\ progress' = progress]_vars

\* With a boarding open, the station-category spot S01 was checked in and
\* credited.
C9_Witness ==
  /\ Boarded(progress)
  /\ Called(call, "checkInSpotOrCp")
  /\ Succeeded(result)
  /\ result.message.name = "S01"
  /\ result.message.add = 10
  /\ call.t >= progress.visitedStationEvents[
                 Len(progress.visitedStationEvents)].atMs

\* Station i comes before station j: nearer, or as near with the smaller ID.
StationPrecedes(loc, i, j) ==
  \/ StationDist(loc, i) < StationDist(loc, j)
  \/ /\ StationDist(loc, i) = StationDist(loc, j)
     /\ Rank(world.stations[i].stationId) < Rank(world.stations[j].stationId)

\* No cooldown is running at time t.
CooldownOver(p, t) == p.cooldownUntilMs = <<>> \/ t >= p.cooldownUntilMs[1]

\* C10: a successful jrBoard at time t sets boardedStationId to the station
\* within 50 m that is first by (distance ascending, stationId ascending),
\* appends exactly one BOARD event for it at the end of visitedStationEvents,
\* sets cooldownUntilMs = t + 60 s and leaves score, penalty, visitedSpotIds,
\* reachedCpIds and scoredStationIds unchanged; jrBoard never succeeds while
\* a boarding is open (ALREADY_BOARDED), when JR is disabled (JR_DISABLED) or
\* with no station in range (NO_STATION).
C10_JrBoard ==
  [][call'.op = "jrBoard"
       => LET loc == call'.loc
              R == StationsInRange(loc)
              gated == /\ PassesCommon(progress, call'.accuracy)
                       /\ progress.config.jrEnabled
                       /\ CooldownOver(progress, call'.t)
          IN /\ result'.ok
                  => \E b \in R :
                       LET id == world.stations[b].stationId
                       IN /\ \A i \in R \ { b } : StationPrecedes(loc, b, i)
                          /\ progress'.boardedStationId = << id >>
                          /\ progress'.visitedStationEvents =
                               Append(progress.visitedStationEvents,
                                      [type |-> "BOARD", stationId |-> id,
                                       atMs |-> call'.t])
                          /\ progress'.cooldownUntilMs = << call'.t + 60000 >>
                          /\ progress'.score = progress.score
                          /\ progress'.penalty = progress.penalty
                          /\ progress'.visitedSpotIds = progress.visitedSpotIds
                          /\ progress'.reachedCpIds = progress.reachedCpIds
                          /\ progress'.scoredStationIds =
                               progress.scoredStationIds
             /\ (Boarded(progress) \/ ~progress.config.jrEnabled \/ R = {})
                  => ~result'.ok
             /\ (PassesCommon(progress, call'.accuracy)
                 /\ ~progress.config.jrEnabled)
                  => FailedWith(result', "JR_DISABLED")
             /\ (gated /\ Boarded(progress))
                  => FailedWith(result', "ALREADY_BOARDED")
             /\ (gated /\ ~Boarded(progress) /\ R = {})
                  => FailedWith(result', "NO_STATION")
             /\ (gated /\ ~Boarded(progress) /\ R # {}) => result'.ok]_vars

\* At (0, 0), 10 m from both J03 and J04, a boarding was taken at J03 after
\* an earlier ride had scored stations.
C10_Witness ==
  /\ world.name = "line"
  /\ Called(call, "jrBoard")
  /\ call.loc = LatLng(0, 0)
  /\ Succeeded(result)
  /\ progress.boardedStationId = << "J03" >>
  /\ progress.scoredStationIds # <<>>
  /\ progress.score > 0
  /\ progress.cooldownUntilMs = << call.t + 60000 >>

\* ------------------------------------------------------------------------
\* C11..C20
\* ------------------------------------------------------------------------

JrOps == { "jrBoard", "jrAlight" }

\* The time of the last successful jrBoard or jrAlight: each appends one
\* event stamped with the time of its call.
LastJrAt(p) == p.visitedStationEvents[Len(p.visitedStationEvents)].atMs

\* C11: after a successful jrBoard or jrAlight at time t, every jrBoard or
\* jrAlight attempted at t' with t <= t' < t + 60 s (game running, accuracy
\* at most 100 m, JR enabled) fails with COOLDOWN and reports
\* ceil((t + 60 s - t') / 1 s) seconds left, a number above 0 and at most 60;
\* at t' >= t + 60 s the call is not rejected for cooldown.
C11_Cooldown ==
  [][(/\ call'.op \in JrOps
      /\ progress.visitedStationEvents # <<>>
      /\ PassesCommon(progress, call'.accuracy)
      /\ progress.config.jrEnabled)
       => LET t == LastJrAt(progress)
              rem == t + 60 * 1000 - call'.t
          IN /\ call'.t >= t
             /\ rem > 0
                  => /\ FailedWith(result', "COOLDOWN")
                     /\ result'.message.left * 1000 >= rem
                     /\ (result'.message.left - 1) * 1000 < rem
                     /\ result'.message.left > 0
                     /\ result'.message.left <= 60
                     /\ progress' = progress
             /\ rem <= 0 => ~FailedWith(result', "COOLDOWN")]_vars

\* Half a second before the cooldown of a boarding ended, an alighting at
\* another station was refused with one second left.
C11_Witness ==
  /\ Called(call, "jrAlight")
  /\ FailedWith(result, "COOLDOWN")
  /\ result.message.left = 1
  /\ Boarded(progress)
  /\ call.t = LastJrAt(progress) + 59500
  /\ progress.cooldownUntilMs = << call.t + 500 >>

\* The station of the present master with the given ID.
StationById(id) ==
  CHOOSE st \in SeqToSet(world.stations) : st.stationId = id

\* The point value of a station: its score, 0 when the master has none or
\* one that is not a finite number.
PointValue(st) ==
  IF st.score = <<>> \/ Len(st.score) # 1 THEN 0 ELSE st.score[1]

\* The ride set: the two ends and the stations of the master whose
\* orderIndex lies strictly between theirs.
RideSet(b, a) ==
  { b, a } \cup { st \in SeqToSet(world.stations) :
                    \/ b.orderIndex < st.orderIndex /\ st.orderIndex < a.orderIndex
                    \/ a.orderIndex < st.orderIndex /\ st.orderIndex < b.orderIndex }

RECURSIVE SumPoints(_)
SumPoints(S) ==
  IF S = {} THEN 0
  ELSE LET st == CHOOSE x \in S : TRUE
       IN PointValue(st) + SumPoints(S \ { st })

\* The station at which the last event of p took place.
LastJrStation(p) ==
  StationById(p.visitedStationEvents[Len(p.visitedStationEvents)].stationId)

\* C12: a successful jrAlight from boarded station B at station A adds to
\* score the sum of the point values of the stations of the ride set (B, A
\* and the stations whose orderIndex lies strictly between theirs) that are
\* not yet in scoredStationIds, and afterwards scoredStationIds is its old
\* value united with the ride set, whichever of B and A has the lower
\* orderIndex; an orderIndex without a station is skipped.
C12_RideScoring ==
  [][(call'.op = "jrAlight" /\ result'.ok)
       => LET B == StationById(progress.boardedStationId[1])
              A == LastJrStation(progress')
              ride == RideSet(B, A)
              old == SeqToSet(progress.scoredStationIds)
              fresh == { st \in ride : st.stationId \notin old }
          IN /\ progress'.score = progress.score + SumPoints(fresh)
             /\ result'.message.add = SumPoints(fresh)
             /\ SeqToSet(progress'.scoredStationIds)
                  = old \cup { st.stationId : st \in ride }
             /\ RideSet(A, B) = ride]_vars

\* On the master imported without J04, a ride down the line from J06 to J03
\* passed J05 and skipped index 4; J03 had been scored by an earlier ride
\* J03 - J04, so J06 and J05 alone were credited.
C12_Witness ==
  /\ world.name = "rail"
  /\ Len(world.stations) = 3
  /\ Called(call, "jrAlight")
  /\ Succeeded(result)
  /\ result.message.add = 9
  /\ result.message.passNames = << "J05" >>
  /\ progress.scoredStationIds = << "J03", "J04", "J06", "J05" >>
  /\ progress.score = 5 - 7 + 9

\* The stations of every master of the world, by ID.
MasterStation(id) ==
  LET all == SeqToSet(world.stations)
               \cup (IF "reimported" \in DOMAIN world
                       THEN SeqToSet(world.reimported) ELSE {})
  IN CHOOSE st \in all : st.stationId = id

\* Sum of the Scores of the spots listed.
RECURSIVE SumSpotScores(_)
SumSpotScores(ids) ==
  IF ids = <<>> THEN 0
  ELSE SpotById(Head(ids)).Score + SumSpotScores(Tail(ids))

\* Sum of the point values of the stations listed.
RECURSIVE SumStationPoints(_)
SumStationPoints(ids) ==
  IF ids = <<>> THEN 0
  ELSE PointValue(MasterStation(Head(ids))) + SumStationPoints(Tail(ids))

\* No ID occurs twice in the sequence.
NoDuplicates(ids) == Cardinality(SeqToSet(ids)) = Len(ids)

\* What has been credited is one Score for each visited spot and one point
\* value for each scored station, each station being listed once.
CreditedOnce(p) ==
  /\ NoDuplicates(p.scoredStationIds)
  /\ p.score + p.penalty = SumSpotScores(p.visitedSpotIds)
                             + SumStationPoints(p.scoredStationIds)

\* C13: over any sequence of rides each station's point value is credited
\* at most once: the score is always the sum of one point value per scored
\* station (and one Score per visited spot), a ride from orderIndex 3 to 6
\* credits the stations at 3, 4, 5 and 6, a later ride from 6 to 3 adds 0,
\* and every ride whose ride set is contained in scoredStationIds adds 0.
C13_StationsCreditedOnce ==
  [][/\ CreditedOnce(progress')
     /\ (call'.op = "jrAlight" /\ result'.ok)
          => LET B == StationById(progress.boardedStationId[1])
                 A == LastJrStation(progress')
                 old == SeqToSet(progress.scoredStationIds)
             IN /\ (\A st \in RideSet(B, A) : st.stationId \in old)
                     => /\ result'.message.add = 0
                        /\ progress'.score = progress.score
                        /\ progress'.scoredStationIds = progress.scoredStationIds
                /\ (old = {} /\ B.orderIndex = 3 /\ A.orderIndex = 6
                    /\ world.stations = WorldLine.stations)
                     => /\ progress'.scoredStationIds
                             = << "J03", "J04", "J05", "J06" >>
                        /\ progress'.score - progress.score = 5 + 0 + 7 + 9]_vars

\* After a ride from J03 (orderIndex 3) to J06 (orderIndex 6), which
\* credited 21 points, the ride back from J06 to J03 was credited nothing.
C13_Witness ==
  /\ world.name = "line"
  /\ Called(call, "jrAlight")
  /\ Succeeded(result)
  /\ result.message.add = 0
  /\ Len(progress.visitedStationEvents) = 4
  /\ progress.visitedStationEvents[1].stationId = "J03"
  /\ progress.visitedStationEvents[2].stationId = "J06"
  /\ progress.visitedStationEvents[3].stationId = "J06"
  /\ progress.visitedStationEvents[4].stationId = "J03"
  /\ progress.scoredStationIds = << "J03", "J04", "J05", "J06" >>
  /\ progress.score = 21

\* C14: the point value jrAlight credits for a ride station is a finite,
\* non-negative number for every station record of the master (whatever its
\* score holds: nothing, a value that is not finite, or a negative number),
\* so the score after a successful jrAlight is never lower than before it.
C14_CreditNeverNegative ==
  [][(call'.op = "jrAlight" /\ result'.ok)
       => /\ \A st \in SeqToSet(world.stations) : scoreOf(st) >= 0
          /\ result'.message.add >= 0
          /\ progress'.score >= progress.score]_vars

\* A ride from J03 to J04, whose score in the master is -7, was credited
\* 5 - 7 points and left the score below zero.
C14_Witness ==
  /\ world.name = "rail"
  /\ Called(call, "jrAlight")
  /\ Succeeded(result)
  /\ result.message.add = -2
  /\ progress.scoredStationIds = << "J03", "J04" >>
  /\ progress.score = -2

\* The index of the station a board or alight check-in at loc resolves to
\* (some station is in range).
NearestStation(loc) ==
  CHOOSE b \in StationsInRange(loc) :
    \A i \in StationsInRange(loc) \ { b } : StationPrecedes(loc, b, i)

\* C15: a jrAlight that passes the preconditions it shares with jrBoard
\* fails with NOT_BOARDED when no boarding is open, with NO_STATION when no
\* station is within 50 m, with SAME_STATION when the station resolved at
\* the location is the boarded one, and with BOARD_STATION_UNKNOWN when the
\* boarded ID is not in the station master; otherwise it succeeds, clears
\* boardedStationId, appends exactly one ALIGHT event for the alight station
\* at the end of visitedStationEvents and sets cooldownUntilMs = now + 60 s.
C15_JrAlight ==
  [][call'.op = "jrAlight"
       => LET loc == call'.loc
              R == StationsInRange(loc)
              gated == /\ PassesCommon(progress, call'.accuracy)
                       /\ progress.config.jrEnabled
                       /\ CooldownOver(progress, call'.t)
              known == { st.stationId : st \in SeqToSet(world.stations) }
              same == world.stations[NearestStation(loc)].stationId
                        = progress.boardedStationId[1]
          IN /\ ~Boarded(progress) => ~result'.ok
             /\ (gated /\ ~Boarded(progress))
                  => FailedWith(result', "NOT_BOARDED")
             /\ R = {} => ~result'.ok
             /\ (gated /\ Boarded(progress) /\ R = {})
                  => FailedWith(result', "NO_STATION")
             /\ (gated /\ Boarded(progress) /\ R # {} /\ same)
                  => FailedWith(result', "SAME_STATION")
             /\ (gated /\ Boarded(progress) /\ R # {} /\ ~same
                 /\ progress.boardedStationId[1] \notin known)
                  => FailedWith(result', "BOARD_STATION_UNKNOWN")
             /\ (gated /\ Boarded(progress) /\ R # {} /\ ~same
                 /\ progress.boardedStationId[1] \in known)
                  => result'.ok
             /\ ~result'.ok => progress' = progress
             /\ result'.ok
                  => /\ progress'.boardedStationId = <<>>
                     /\ progress'.visitedStationEvents =
                          Append(progress.visitedStationEvents,
                                 [type |-> "ALIGHT",
                                  stationId |->
                                    world.stations[NearestStation(loc)].stationId,
                                  atMs |-> call'.t])
                     /\ progress'.cooldownUntilMs = << call'.t + 60000 >>
                     /\ result'.kind = "JR_ALIGHT"]_vars

\* After a boarding at J04 the master was replaced by one without J04, and
\* the alighting at J03 was refused because the boarded station is unknown.
C15_Witness ==
  /\ Called(call, "jrAlight")
  /\ FailedWith(result, "BOARD_STATION_UNKNOWN")
  /\ progress.boardedStationId = << "J04" >>
  /\ call.loc = LatLng(0, 0)
  /\ \A i \in 1..Len(world.stations) : world.stations[i].stationId # "J04"

\* Squared distance from loc to the goal of the game.
GoalDist(loc) ==
  Sq(loc.lat - progress.config.goal.lat) + Sq(loc.lng - progress.config.goal.lng)

\* C16: a goalCheckIn on a game that has not ended, with accuracy at most
\* 100 m, succeeds exactly when the location is within 50 m (inclusive) of
\* config.goal and fails with NOT_AT_GOAL otherwise, whatever jrEnabled,
\* cooldownUntilMs and boardedStationId are: it succeeds during a JR
\* cooldown and while a boarding is open.
C16_GoalGate ==
  [][(call'.op = "goalCheckIn" /\ PassesCommon(progress, call'.accuracy))
       => /\ GoalDist(call'.loc) <= 50 * 50
               => result'.ok /\ result'.kind = "GOAL"
          /\ GoalDist(call'.loc) > 50 * 50
               => result' = Fail("NOT_AT_GOAL", <<>>)]_vars

\* Exactly 50 m from the goal, the goal check-in succeeded while a boarding
\* was open and its cooldown was running.
C16_Witness ==
  /\ Called(call, "goalCheckIn")
  /\ Succeeded(result)
  /\ GoalDist(call.loc) = 50 * 50
  /\ Boarded(progress)
  /\ progress.config.jrEnabled
  /\ call.t < progress.cooldownUntilMs[1]
  /\ progress.endedAtMs = << call.t >>

\* C17: with plannedEnd = start + durationMin minutes and earlyThreshold =
\* plannedEnd - 15 minutes, calcPenalty returns the whole minutes (seconds
\* truncated) of earlyThreshold - goal when goal < earlyThreshold, the whole
\* minutes of goal - plannedEnd when goal > plannedEnd, and 0 otherwise: 0
\* at plannedEnd and at earlyThreshold, 1 at plannedEnd + 90 s, 5 at
\* start + 160 min of a 180-minute game, and never a negative number.
C17_CalcPenalty ==
  (Called(call, "calcPenalty") /\ result # <<>>)
    => LET plannedEnd == call.startedAtMs + call.durationMin * 60 * 1000
           earlyThreshold == plannedEnd - 15 * 60 * 1000
           goal == call.goalAtMs
           off == IF goal < earlyThreshold THEN earlyThreshold - goal
                  ELSE IF goal > plannedEnd THEN goal - plannedEnd
                  ELSE 0
       IN /\ result.value >= 0
          /\ result.value * 60 * 1000 <= off
          /\ off < (result.value + 1) * 60 * 1000
          /\ goal \in { plannedEnd, earlyThreshold } => result.value = 0
          /\ goal = plannedEnd + 90 * 1000 => result.value = 1
          /\ goal = plannedEnd + 59999 => result.value = 0
          /\ (call.durationMin = 180
              /\ goal = call.startedAtMs + 160 * 60 * 1000) => result.value = 5

\* A 180-minute game reached the goal 160 minutes after the start, five
\* minutes before the early threshold: penalty 5.
C17_Witness ==
  /\ Called(call, "calcPenalty")
  /\ call.durationMin = 180
  /\ call.goalAtMs = call.startedAtMs + 160 * 60 * 1000
  /\ result = [value |-> 5]

\* The number of configured checkpoints that have not been reached.
MissingCps(p) ==
  Cardinality({ id \in SeqToSet(p.cpSpotIds) :
                  id \notin SeqToSet(p.reachedCpIds) })

\* C18: at a successful goalCheckIn the checkpoint penalty is 100 times the
\* number of IDs of cpSpotIds that are not in reachedCpIds, in every state
\* reached from startNewGame by check-in operations and by the debug
\* drag-to-reassign of a checkpoint.
C18_CpPenalty ==
  [][(call'.op = "goalCheckIn" /\ result'.ok)
       => result'.message.cpPenalty = 100 * MissingCps(progress)]_vars

\* S04 was reached as a checkpoint, its marker was then dragged to S01, and
\* the goal check-in charged 100 points although S01 and S03 are both
\* unreached.
C18_Witness ==
  /\ Called(call, "goalCheckIn")
  /\ Succeeded(result)
  /\ progress.cpSpotIds = << "S01", "S03" >>
  /\ progress.reachedCpIds = << "S04" >>
  /\ result.message.cpPenalty = 100

\* C19: a successful goalCheckIn at time t sets penalty to
\* calcPenalty(startedAtMs, durationMin, t) plus the checkpoint penalty (the
\* figure the goal check-in reports, which is 100 per missing checkpoint
\* whenever every reached checkpoint is still a configured one), sets score
\* to the previous score minus that penalty, which may leave it negative,
\* and sets endedAtMs = t and endReason = GOAL; until a goal check-in the
\* penalty is 0.
C19_GoalEffects ==
  [][/\ ~Ended(progress) => progress.penalty = 0
     /\ (call'.op = "goalCheckIn" /\ result'.ok)
          => LET timePenalty == calcPenalty(progress.startedAtMs,
                                            progress.config.durationMin,
                                            call'.t)
                 cpPenalty == result'.message.cpPenalty
             IN /\ SeqToSet(progress.reachedCpIds)
                       \subseteq SeqToSet(progress.cpSpotIds)
                     => cpPenalty = 100 * MissingCps(progress)
                /\ progress'.penalty = timePenalty + cpPenalty
                /\ result'.message.penalty = progress'.penalty
                /\ progress'.score = progress.score - progress'.penalty
                /\ progress'.endedAtMs = << call'.t >>
                /\ progress'.endReason = << "GOAL" >>
                /\ progress'.visitedSpotIds = progress.visitedSpotIds
                /\ progress'.reachedCpIds = progress.reachedCpIds]_vars

\* The goal was reached at the very start of a 17-minute game, two minutes
\* early and with both checkpoints missing: penalty 202, score -202.
C19_Witness ==
  /\ Called(call, "goalCheckIn")
  /\ Succeeded(result)
  /\ progress.penalty = 2 + 200
  /\ progress.score = -202
  /\ progress.endedAtMs = << progress.startedAtMs >>
  /\ progress.endReason = << "GOAL" >>

\* The spots of the pool that pass the city filter of the call.
CityFilteredIds ==
  LET f == call.config.cityFilter
      spots == SeqToSet(world.judgeSpots)
      on == IF f = Undefined THEN {}
            ELSE { c \in { "ibusuki", "minamikyushu", "makurazaki" } :
                     \/ c = "ibusuki" /\ f[1].ibusuki
                     \/ c = "minamikyushu" /\ f[1].minamikyushu
                     \/ c = "makurazaki" /\ f[1].makurazaki }
  IN IF on = {} THEN { s.ID : s \in spots }
     ELSE { s.ID : s \in { x \in spots :
                            /\ x.Address # Undefined
                            /\ SeqToSet(x.Address[1]) \cap on # {} } }

\* The number of IDs selectCpSpotsMVP is to return.
SelectCount ==
  LET c == call.config.cpCount
      n == IF c < 0 THEN 0 ELSE IF c > 5 THEN 5 ELSE c
      size == Cardinality(CityFilteredIds)
      m == IF n <= size THEN n ELSE size
  IN IF n <= 2 /\ m > 30 THEN 30 ELSE m

Returned == result # <<>> /\ result.pc = "done"

\* C20: for every pool, config and outcome of the random draws,
\* selectCpSpotsMVP terminates, and the list it returns has exactly
\* min(n, size of the city-filtered pool, and 30 when n <= 2) IDs with
\* n = clamp(cpCount, 0, 5) (none when n = 0), no ID twice, and every ID of
\* the city-filtered pool.
C20_Selection ==
  /\ [](Returned
          => /\ Len(result.picked) = SelectCount
             /\ NoDuplicates(result.picked)
             /\ SeqToSet(result.picked) \subseteq CityFilteredIds)
  /\ <>Returned

\* Two checkpoints were drawn from the shortlist of a pool of BigPoolSize
\* spots, all of them of a city asked for.
C20_Witness ==
  /\ Returned
  /\ call.config.cpCount = 2
  /\ call.config.cityFilter # Undefined
  /\ Len(world.judgeSpots) > ShortlistMax
  /\ Cardinality(CityFilteredIds) = Len(world.judgeSpots)
  /\ Len(result.picked) = 2

\* The detour of a pool candidate by way of start and goal, and the distance
\* from start to goal with 0 replaced by 1: the ratio is their quotient.
DetourOf(id) ==
  LET c == CHOOSE x \in SeqToSet(world.judgeSpots) : x.ID = id
      at == LatLng(c.Latitude, c.Longitude)
  IN haversineMeters(call.config.start, at)
       + haversineMeters(at, call.config.goal)

StartGoalDistance ==
  LET d == haversineMeters(call.config.start, call.config.goal)
  IN IF d = 0 THEN 1 ELSE d

\* a / b < c / d for positive b and d.
FractionLess(a, b, c, d) == a * d < c * b

\* The candidates of the city-filtered pool whose ratio is strictly smaller
\* than the ratio of id.
SmallerRatio(id) ==
  { c \in CityFilteredIds :
      FractionLess(DetourOf(c), StartGoalDistance,
                   DetourOf(id), StartGoalDistance) }

ShortlistSize ==
  IF Cardinality(CityFilteredIds) <= 30 THEN Cardinality(CityFilteredIds)
  ELSE 30

\* C21: when n <= 2, every ID selectCpSpotsMVP picks is one of the
\* min(30, pool size) candidates of the smallest detour ratio: fewer than
\* that many candidates have a strictly smaller ratio, and the picked IDs fit
\* into one such shortlist together (with those of a smaller ratio than the
\* largest picked one they are no more than the shortlist holds).
C21_Shortlist ==
  (result # <<>> /\ call.config.cpCount <= 2)
    => /\ \A id \in SeqToSet(result.picked) :
            /\ id \in CityFilteredIds
            /\ Cardinality(SmallerRatio(id)) < ShortlistSize
       /\ \A id \in SeqToSet(result.picked) :
            (\A o \in SeqToSet(result.picked) : DetourOf(o) <= DetourOf(id))
              => Cardinality(SmallerRatio(id)
                             \cup { o \in SeqToSet(result.picked) :
                                      DetourOf(o) = DetourOf(id) })
                   <= ShortlistSize

\* From a pool longer than the shortlist the last candidate of the shortlist
\* was picked: 29 candidates have a smaller ratio, and one candidate, which
\* has a larger one, can never be picked.
C21_Witness ==
  /\ Returned
  /\ call.config.cpCount = 2
  /\ Cardinality(CityFilteredIds) > 30
  /\ \E id \in SeqToSet(result.picked) : Cardinality(SmallerRatio(id)) = 29
  /\ \E c \in CityFilteredIds : Cardinality(SmallerRatio(c)) = 30

\* The cities whose flag is on in the call's config.
EnabledCities ==
  LET f == call.config.cityFilter
  IN IF f = Undefined THEN {}
     ELSE { c \in { "ibusuki", "minamikyushu", "makurazaki" } :
              \/ c = "ibusuki" /\ f[1].ibusuki
              \/ c = "minamikyushu" /\ f[1].minamikyushu
              \/ c = "makurazaki" /\ f[1].makurazaki }

\* b holds entries of a only, each once and in the order of a.
IsSubsequence(b, a) ==
  \E g \in [1..Len(b) -> 1..Len(a)] :
    /\ \A i \in 1..Len(b) : b[i] = a[g[i]]
    /\ \A i, j \in 1..Len(b) : i < j => g[i] < g[j]

\* C22: filterCpPoolByCity returns the pool unchanged when the config has no
\* city filter or all three flags are off; with a flag on it returns exactly
\* the spots whose address names an enabled city (and so is not empty once
\* trimmed), in pool order; filtering the result again changes nothing.
C22_CityFilter ==
  result # <<>>
    => /\ EnabledCities = {} => result.cpPool = world.judgeSpots
       /\ EnabledCities # {}
            => /\ IsSubsequence(result.cpPool, world.judgeSpots)
               /\ SeqToSet(result.cpPool)
                    = { x \in SeqToSet(world.judgeSpots) :
                          /\ x.Address # Undefined
                          /\ SeqToSet(x.Address[1]) \cap EnabledCities # {} }
       /\ "pool" \in DOMAIN result => result.pool = result.cpPool

\* With two cities asked for, the whole address pool was filtered twice:
\* three spots are kept, among them those whose address has a blank end.
C22_Witness ==
  /\ result # <<>>
  /\ "pool" \in DOMAIN result
  /\ world.judgeSpots = AddressPool
  /\ EnabledCities = { "minamikyushu", "makurazaki" }
  /\ [i \in 1..Len(result.pool) |-> result.pool[i].ID]
       = << "S02", "S03", "S04" >>

\* The judge targets of the master, and a text without the blanks at its
\* ends.
Targets == { x \in SeqToSet(world.judgeSpots) : x.JudgeTarget = 1 }

Stripped(a) ==
  LET solid == { i \in 1..Len(a) : a[i] # " " }
  IN IF solid = {} THEN <<>>
     ELSE SubSeq(a, CHOOSE i \in solid : \A j \in solid : i <= j,
                 CHOOSE i \in solid : \A j \in solid : j <= i)

TextOf(x, field) == IF x[field] = Undefined THEN <<>> ELSE x[field][1]

KeysOf(field) == { Stripped(TextOf(x, field)) : x \in Targets } \ { <<>> }

\* The catalog of achievements of the master: each ID with its group.
Catalog ==
  { [id |-> << "ACH_ALL_SPOTS" >>, kind |-> "all", group |-> Targets] }
    \cup { [id |-> << "ACH_CITY_" \o c[1] >>, kind |-> "city",
            group |-> { x \in Targets :
                          c[2] \in SeqToSet(TextOf(x, "Address")) }] :
             c \in { << "IBUSUKI", "ibusuki" >>,
                     << "MINAMIKYUSHU", "minamikyushu" >>,
                     << "MAKURAZAKI", "makurazaki" >> } }
    \cup { [id |-> << "ACH_POSTAL_" >> \o k, kind |-> "postal",
            group |-> { x \in Targets :
                          Stripped(TextOf(x, "PostalCode")) = k }] :
             k \in KeysOf("PostalCode") }
    \cup { [id |-> << "ACH_CAT_" >>
                     \o [i \in 1..Len(k) |->
                           IF k[i] = " " THEN "%20" ELSE k[i]],
            kind |-> "category",
            group |-> { x \in Targets :
                          Stripped(TextOf(x, "Category")) = k }] :
             k \in KeysOf("Category") }

\* The achievements of the catalog that a set of visited spots completes.
Completed(visited) ==
  { a \in Catalog : a.group # {} /\ \A x \in a.group : x.ID \in visited }

UnlockIds(unlocks) == [i \in 1..Len(unlocks) |-> unlocks[i].id]

\* C23: computeGameUnlocks reports an achievement exactly when its group of
\* JudgeTarget=1 spots is non-empty and every spot of it is in the game's
\* visitedSpotIds; no achievement ID is reported twice; and a game that has
\* visited one spot more has every unlock the game has.
C23_GameUnlocks ==
  (result # <<>> /\ "unlocks" \in DOMAIN result)
    => /\ SeqToSet(UnlockIds(result.unlocks))
            = { a.id : a \in Completed(SeqToSet(progress.visitedSpotIds)) }
       /\ NoDuplicates(UnlockIds(result.unlocks))
       /\ \A x \in SeqToSet(world.judgeSpots) :
            LET more == [progress EXCEPT !.visitedSpotIds =
                           SetAdd(progress.visitedSpotIds, x.ID)]
            IN SeqToSet(UnlockIds(result.unlocks))
                 \subseteq SeqToSet(UnlockIds(
                             computeGameUnlocks(more, world.judgeSpots)))

\* With S01 and S02 visited the city, the postal code and the category they
\* share are unlocked, and nothing else: S04 of the same groups is no judge
\* target, and the blanks around the texts of S02 do not count.
C23_Witness ==
  /\ result # <<>>
  /\ "unlocks" \in DOMAIN result
  /\ world.name = "ach"
  /\ progress.visitedSpotIds = << "S02", "S01" >>
  /\ UnlockIds(result.unlocks)
       = << << "ACH_CITY_IBUSUKI" >>, << "ACH_POSTAL_", "8910" >>,
            << "ACH_CAT_", "onsen" >> >>

\* The points of an achievement of the catalog.
PointsOf(a) ==
  LET k == Cardinality(a.group)
  IN CASE a.kind = "all" -> 6000
       [] a.kind = "city" -> 2000
       [] a.kind = "category" -> 500
       [] a.kind = "postal" /\ k <= 1 -> 30
       [] a.kind = "postal" /\ 2 <= k /\ k <= 3 -> 50
       [] a.kind = "postal" /\ 4 <= k /\ k <= 6 -> 60
       [] a.kind = "postal" /\ 7 <= k /\ k <= 10 -> 100
       [] a.kind = "postal" /\ 11 <= k /\ k <= 20 -> 200
       [] a.kind = "postal" /\ k > 20 -> 400

RECURSIVE SumOfPoints(_)
SumOfPoints(as) ==
  IF as = {} THEN 0
  ELSE LET a == CHOOSE x \in as : TRUE
       IN PointsOf(a) + SumOfPoints(as \ { a })

\* C24: an unlock has 6000 points for all spots, 2000 for a city, 500 for a
\* category and, for a postal code of k spots, 30, 50, 60, 100, 200 or 400
\* by the steps 1, 3, 6, 10, 20; computeBonus is the sum of the points of the
\* unlocks, 0 when there are none.
C24_Points ==
  (result # <<>> /\ "unlocks" \in DOMAIN result)
    => /\ \A i \in 1..Len(result.unlocks) :
            \E a \in Catalog :
              /\ a.id = result.unlocks[i].id
              /\ result.unlocks[i].points = PointsOf(a)
       /\ "bonus" \in DOMAIN result
            => /\ result.bonus
                    = SumOfPoints(Completed(SeqToSet(progress.visitedSpotIds)))
               /\ result.unlocks = <<>> => result.bonus = 0

\* Every spot of a master with a postal code of 21 spots and another of one
\* spot is visited: 6000 + 400 + 30.
C24_Witness ==
  /\ result # <<>>
  /\ "bonus" \in DOMAIN result
  /\ Len(world.judgeSpots) = 22
  /\ Len(result.unlocks) = 3
  /\ result.unlocks[2].points = 400
  /\ result.bonus = 6430

RecordIds(records) == [i \in 1..Len(records) |-> records[i].id]

HasRecord(records, id) == \E i \in 1..Len(records) : records[i].id = id

RecordOf(records, id) ==
  records[CHOOSE i \in 1..Len(records) : records[i].id = id]

\* C25: the stored achievement records hold at most one record per ID;
\* updateRecordsForGameUnlocks creates a record of unlockCount 1 for an ID
\* without one and otherwise adds 1 to the unlockCount and refreshes
\* lastUnlockedAtMs, keeping firstUnlockedAtMs, and leaves the other records
\* alone; ensureRecordsForCumulative adds records (of unlockCount 1) for
\* cumulatively satisfied IDs without a record only, and changes no record
\* that exists.
C25_Records ==
  [][("records" \in DOMAIN world /\ "records" \in DOMAIN world')
      => LET old == world.records
             new == world'.records
         IN /\ NoDuplicates(RecordIds(old))
            /\ NoDuplicates(RecordIds(new))
            /\ Called(call', "updateRecordsForGameUnlocks")
                 => /\ SeqToSet(RecordIds(new))
                         = SeqToSet(RecordIds(old))
                             \cup SeqToSet(UnlockIds(result.unlocks))
                    /\ \A id \in SeqToSet(UnlockIds(result.unlocks)) :
                         IF HasRecord(old, id)
                           THEN RecordOf(new, id)
                                  = [RecordOf(old, id) EXCEPT
                                       !.unlockCount = @ + 1,
                                       !.lastUnlockedAtMs = now]
                         ELSE RecordOf(new, id)
                                = [id |-> id, firstUnlockedAtMs |-> now,
                                   lastUnlockedAtMs |-> now,
                                   unlockCount |-> 1]
                    /\ \A id \in SeqToSet(RecordIds(old))
                                   \ SeqToSet(UnlockIds(result.unlocks)) :
                         RecordOf(new, id) = RecordOf(old, id)
            /\ Called(call', "ensureRecordsForCumulative")
                 => /\ \A id \in SeqToSet(RecordIds(old)) :
                         /\ HasRecord(new, id)
                         /\ RecordOf(new, id) = RecordOf(old, id)
                    /\ \A id \in SeqToSet(RecordIds(new))
                                   \ SeqToSet(RecordIds(old)) :
                         /\ id \in { a.id : a \in Completed(call'.ever) }
                         /\ RecordOf(new, id).unlockCount = 1
            /\ (~Called(call', "updateRecordsForGameUnlocks")
                  /\ ~Called(call', "ensureRecordsForCumulative"))
                 => new = old]_vars

\* An achievement unlocked in two games has one record, of unlockCount 2,
\* whose first time is the earlier game's and whose last time is now, next to
\* a record that the cumulative check created and no game has counted up.
C25_Witness ==
  /\ "records" \in DOMAIN world
  /\ Called(call, "updateRecordsForGameUnlocks")
  /\ \E i \in 1..Len(world.records) :
       /\ world.records[i].unlockCount = 2
       /\ world.records[i].firstUnlockedAtMs = T0
       /\ world.records[i].lastUnlockedAtMs = now
       /\ now > T0
  /\ \E i \in 1..Len(world.records) :
       /\ world.records[i].id = ACH_ID_ALL_SPOTS
       /\ world.records[i].unlockCount = 1
       /\ world.records[i].lastUnlockedAtMs < now

\* C26: once the stored progress has endedAtMs set, by a goal check-in or by
\* the abandon of the grace expiry, no later write to the store yields a
\* snapshot with endedAtMs unset or with another endedAtMs or endReason,
\* whatever the interleaving of a check-in handler in flight with the abandon
\* timer, the debug timer and the checkpoint edits.
C26_EndedIsTerminal ==
  [][Ended(progress)
       => /\ progress'.endedAtMs = progress.endedAtMs
          /\ progress'.endReason = progress.endReason]_vars

\* The game was abandoned by the timer while a check-in handler, invoked
\* before the grace time ran out, still awaits its fix with the progress it
\* read then.
C26_Witness ==
  /\ progress.endReason = << "ABANDONED" >>
  /\ Len(world.inflight) = 1
  /\ ~Ended(world.inflight[1].progress)
  /\ world.inflight[1].progress.startedAtMs = T0
  /\ progress.startedAtMs = T0

\* A step in which a check-in button was pressed.
ClickStep == world' # world /\ world'.event.kind = "click"

\* A step in which a handler in flight left, with or without a fix.
ExitStep == world' # world /\ world'.event.kind \in { "fix", "nofix" }

\* C27: at most one check-in attempt is in flight per game at any time:
\* while a handler is between setting the busy flag and its finally block,
\* every other invocation of a check-in handler returns without calling the
\* scoring engine and without writing progress; and when a handler leaves,
\* with a result, an engine failure or no fix, the busy flag of its page is
\* cleared.
C27_OneInFlight ==
  [][/\ Len(world.inflight) <= 1
     /\ (ClickStep /\ world.inflight # <<>>)
          => /\ world'.event.outcome = "busy"
             /\ world'.inflight = world.inflight
             /\ progress' = progress
             /\ call' = call
             /\ result' = result
     /\ (ExitStep /\ ~world'.event.stale) => ~world'.checkInBusy]_vars

\* A handler of the page that was left still awaits its fix while a handler
\* of the page opened since awaits its own: both read the same progress.
C27_Witness ==
  /\ world.mounted
  /\ world.checkInBusy
  /\ Len(world.inflight) = 2
  /\ world.inflight[1].stale
  /\ ~world.inflight[2].stale
  /\ world.inflight[1].progress = world.inflight[2].progress
  /\ call = <<>>

\* The call of this step was made at the start/goal point with a fix of 20 m.
AtStartWith20m(c, op) ==
  Called(c, op) /\ c.loc = world.goal /\ c.accuracy = 20

\* C28: the end-to-end scenario.  The game started with start = goal, 180
\* minutes, no checkpoints and no rail line has score 0; a check-in with
\* accuracy 20 m at 10 m from the only spot, of Score 50, gives score 50; a
\* second check-in at the same place leaves score 50; a goal check-in at the
\* start/goal point exactly 180 minutes after the start gives penalty 0,
\* final score 50 and an ended game.
C28_EndToEnd ==
  [][/\ call = <<>> => /\ progress.score = 0
                       /\ progress.penalty = 0
                       /\ ~Truthy(progress.endedAtMs)
     /\ (/\ AtStartWith20m(call', "checkInSpotOrCp")
         /\ ~Truthy(progress.endedAtMs)
         /\ progress.visitedSpotIds = <<>>)
          => /\ result'.ok
             /\ progress'.score = 50
             /\ progress'.visitedSpotIds = << "S01" >>
     /\ (/\ AtStartWith20m(call', "checkInSpotOrCp")
         /\ ~Truthy(progress.endedAtMs)
         /\ progress.visitedSpotIds = << "S01" >>)
          => progress'.score = 50
     /\ (/\ AtStartWith20m(call', "goalCheckIn")
         /\ call'.t = progress.startedAtMs + TraceDurationMin * 60000
         /\ ~Truthy(progress.endedAtMs)
         /\ progress.score = 50)
          => /\ result'.ok
             /\ progress'.penalty = 0
             /\ progress'.score = 50
             /\ progress'.endedAtMs = Some(call'.t)
             /\ progress'.endReason = Some("GOAL")]_vars

\* The scenario has been played to its end: the spot was visited and the goal
\* check-in was made at the start/goal point, 180 minutes after the start.
C28_Witness ==
  /\ world.name = "trace"
  /\ AtStartWith20m(call, "goalCheckIn")
  /\ call.t = T0 + TraceDurationMin * 60000
  /\ result.ok
  /\ progress.visitedSpotIds = << "S01" >>
  /\ progress.score = 50
  /\ progress.penalty = 0
  /\ progress.endReason = Some("GOAL")

\* What the call c returns on the snapshot p.
Replay(c, p) ==
  engineCall(c.op, p, LocationFix(c.loc.lat, c.loc.lng, c.accuracy), c.t)

FailureOrder ==
  << "GAME_ENDED", "ACCURACY_TOO_BAD", "JR_DISABLED", "COOLDOWN",
     "ALREADY_BOARDED", "NOT_BOARDED", "NO_STATION", "SAME_STATION",
     "BOARD_STATION_UNKNOWN" >>

\* Some station of the master is within the check-in radius of loc.
StationInReach(loc) ==
  \E k \in 1..Len(world.stations) :
    haversineMetersSq(loc, LatLng(world.stations[k].lat,
                                  world.stations[k].lng))
      <= Sq(CHECKIN_RADIUS_M)

\* Some spot of the master is within the check-in radius of loc.
SpotInReach(loc) ==
  \E k \in 1..Len(world.judgeSpots) :
    haversineMetersSq(loc, LatLng(world.judgeSpots[k].Latitude,
                                  world.judgeSpots[k].Longitude))
      <= Sq(CHECKIN_RADIUS_M)

\* The condition of the refusal code holds for the call c on the snapshot p.
Holds(code, c, p) ==
  CASE code = "GAME_ENDED" -> Ended(p)
    [] code = "ACCURACY_TOO_BAD" -> c.accuracy > MAX_ACCURACY_M
    [] code = "JR_DISABLED" -> ~p.config.jrEnabled
    [] code = "COOLDOWN"
         -> p.cooldownUntilMs # <<>> /\ c.t < p.cooldownUntilMs[1]
    [] code = "ALREADY_BOARDED" -> c.op = "jrBoard" /\ Boarded(p)
    [] code = "NOT_BOARDED" -> c.op = "jrAlight" /\ ~Boarded(p)
    [] code = "NO_STATION" -> ~StationInReach(c.loc)
    [] code = "SAME_STATION"
         -> /\ c.op = "jrAlight"
            /\ Boarded(p)
            /\ StationInReach(c.loc)
            /\ pickStationWithinRadius(world.stations, c.loc)[1].st.stationId
                 = p.boardedStationId[1]
    [] code = "BOARD_STATION_UNKNOWN"
         -> /\ c.op = "jrAlight"
            /\ Boarded(p)
            /\ \A k \in 1..Len(world.stations) :
                 world.stations[k].stationId # p.boardedStationId[1]

\* The places in FailureOrder of the refusals whose condition holds.
Held(c, p) == { k \in 1..Len(FailureOrder) : Holds(FailureOrder[k], c, p) }

\* C30: when several failure conditions hold at once, jrBoard and jrAlight
\* report the first that applies in the order GAME_ENDED, ACCURACY_TOO_BAD,
\* JR_DISABLED, COOLDOWN, ALREADY_BOARDED or NOT_BOARDED, NO_STATION,
\* SAME_STATION, BOARD_STATION_UNKNOWN, and succeed when none holds; so a
\* jrBoard during the cooldown of a successful board reports COOLDOWN; and
\* checkInSpotOrCp on a train with no spot in reach reports NO_SPOT, and
\* IN_TRAIN only with a spot in reach.
C30_FailureOrder ==
  [][/\ (Called(call', "jrBoard") \/ Called(call', "jrAlight"))
          => LET held == Held(call', progress)
             IN IF held = {} THEN result'.ok
                ELSE /\ ~result'.ok
                     /\ \E k \in held :
                          /\ \A j \in held : k <= j
                          /\ result'.code = FailureOrder[k]
     /\ (/\ Called(call', "checkInSpotOrCp")
         /\ ~Ended(progress)
         /\ call'.accuracy <= MAX_ACCURACY_M
         /\ Boarded(progress))
          => /\ ~SpotInReach(call'.loc)
                  => ~result'.ok /\ result'.code = "NO_SPOT"
             /\ (~result'.ok /\ result'.code = "IN_TRAIN")
                  => SpotInReach(call'.loc)]_vars

\* A second jrBoard was made during the cooldown of the board before it,
\* away from any station, and was refused with COOLDOWN.
C30_Witness ==
  /\ world.name = "order"
  /\ Called(call, "jrBoard")
  /\ ~result.ok
  /\ result.code = "COOLDOWN"
  /\ Boarded(progress)
  /\ ~StationInReach(call.loc)
  /\ progress.visitedStationEvents # <<>>
  /\ progress.visitedStationEvents[Len(progress.visitedStationEvents)].type
       = "BOARD"

\* C31: visitedStationEvents strictly alternates BOARD, ALIGHT, BOARD, ...
\* starting with BOARD; boardedStationId is set exactly when the log is
\* non-empty and ends with a BOARD, and is then that event's stationId; and
\* every ALIGHT names a station other than the BOARD right before it.
C31_BoardAlightAlternate ==
  LET ev == progress.visitedStationEvents
      n == Len(ev)
  IN /\ \A k \in 1..n :
          ev[k].type = IF k % 2 = 1 THEN "BOARD" ELSE "ALIGHT"
     /\ Boarded(progress) <=> (n > 0 /\ ev[n].type = "BOARD")
     /\ Boarded(progress) => progress.boardedStationId[1] = ev[n].stationId
     /\ \A k \in 2..n :
          ev[k].type = "ALIGHT" => ev[k].stationId # ev[k - 1].stationId

\* A ride has been made and a second was boarded.
C31_Witness ==
  /\ Len(progress.visitedStationEvents) = 3
  /\ progress.visitedStationEvents[3].type = "BOARD"
  /\ Boarded(progress)
  /\ Called(call, "jrBoard")
  /\ result.ok

\* One Score for each spot and one point value for each station listed.
CreditedPoints(p) ==
  SumSpotScores(p.visitedSpotIds) + SumStationPoints(p.scoredStationIds)

\* C32: with a fixed master of unique IDs, while the game has not ended the
\* score is the sum of Score over the spots in visitedSpotIds plus the sum
\* of the point values of the stations in scoredStationIds; after a goal
\* check-in the score is that sum minus penalty.
C32_ScoreIsSumOfCredits ==
  /\ ~Ended(progress) => /\ progress.score = CreditedPoints(progress)
                         /\ progress.penalty = 0
  /\ progress.endReason = Some("GOAL")
       => progress.score = CreditedPoints(progress) - progress.penalty

\* A game with a spot visited and a ride credited was ended at the goal with
\* its checkpoint missed.
C32_Witness ==
  /\ progress.endReason = Some("GOAL")
  /\ progress.visitedSpotIds # <<>>
  /\ progress.scoredStationIds # <<>>
  /\ progress.penalty = 100
  /\ progress.score = CreditedPoints(progress) - 100

\* C33: without the checkpoint drag, reachedCpIds is a subset of cpSpotIds
\* and of visitedSpotIds and holds no ID twice, so the checkpoints reached
\* are never more than the checkpoints configured.
C33_ReachedWithinConfigured ==
  LET reached == SeqToSet(progress.reachedCpIds)
  IN /\ reached \subseteq SeqToSet(progress.cpSpotIds)
     /\ reached \subseteq SeqToSet(progress.visitedSpotIds)
     /\ NoDuplicates(progress.reachedCpIds)
     /\ Len(progress.reachedCpIds) <= Len(progress.cpSpotIds)

\* A checkpoint was reached and a spot that is no checkpoint was visited.
C33_Witness ==
  /\ progress.reachedCpIds # <<>>
  /\ Len(progress.visitedSpotIds) > Len(progress.reachedCpIds)
  /\ Len(progress.cpSpotIds) > Len(progress.reachedCpIds)

\* The indices of the dense cluster of the base candidate at loc (loc has a
\* spot in range).
ClusterAt(loc) ==
  LET R == SpotsInRange(loc)
      base == CHOOSE b \in R : IsFirstSpot(loc, b, R)
  IN ChainClosure({ base }, R)

\* C34: at a location whose base candidate has a dense cluster of k > 1
\* members, with the player not on board, every checkInSpotOrCp succeeds;
\* while a member is unvisited the call targets an unvisited member and
\* credits its Score, and once all are visited it succeeds with +0.  So from
\* none visited k consecutive calls take k different members, a farther
\* unvisited one before a closer visited one, each credited exactly once,
\* and the (k+1)-th call adds 0.
C34_ClusterExhaustion ==
  [][(/\ Called(call', "checkInSpotOrCp")
      /\ PassesCommon(progress, call'.accuracy)
      /\ ~Boarded(progress)
      /\ SpotsInRange(call'.loc) # {})
       => LET C == ClusterAt(call'.loc)
              visited == SeqToSet(progress.visitedSpotIds)
              left == { i \in C : world.judgeSpots[i].ID \notin visited }
          IN Cardinality(C) > 1
               => /\ result'.ok
                  /\ IF left # {}
                       THEN \E i \in left :
                              LET sp == world.judgeSpots[i]
                              IN /\ result'.message.name = sp.Name
                                 /\ result'.message.add = sp.Score
                                 /\ progress'.score = progress.score + sp.Score
                                 /\ SeqToSet(progress'.visitedSpotIds)
                                      = visited \cup { sp.ID }
                     ELSE /\ result'.message.add = 0
                          /\ progress'.score = progress.score
                          /\ progress'.visitedSpotIds
                               = progress.visitedSpotIds]_vars

\* At the origin of the chain world the three members of the chain were
\* taken by three calls, nearest first, and a fourth call added nothing.
C34_Witness ==
  /\ world.name = "cluster"
  /\ Called(call, "checkInSpotOrCp")
  /\ call.loc = LatLng(0, 0)
  /\ Succeeded(result)
  /\ result.message.add = 0
  /\ progress.visitedSpotIds = << "S01", "S02", "S03" >>
  /\ progress.score = 10 + 20 + 30
  /\ progress.lastLocation # <<>>

\* C35: frame conditions of the engine.  No check-in operation changes
\* startedAtMs, config or cpSpotIds; a successful checkInSpotOrCp leaves
\* boardedStationId, cooldownUntilMs, visitedStationEvents, scoredStationIds
\* and penalty unchanged; a successful jrAlight leaves visitedSpotIds and
\* reachedCpIds unchanged; a successful goalCheckIn leaves the visited,
\* reached and scored sets, visitedStationEvents and boardedStationId
\* unchanged, so a ride boarded and not alighted before the goal credits no
\* station points.
C35_FrameConditions ==
  [][(call' # <<>> /\ call'.op \in CheckInOps)
       => /\ progress'.startedAtMs = progress.startedAtMs
          /\ progress'.config = progress.config
          /\ progress'.cpSpotIds = progress.cpSpotIds
          /\ (call'.op = "checkInSpotOrCp" /\ result'.ok)
               => /\ progress'.boardedStationId = progress.boardedStationId
                  /\ progress'.cooldownUntilMs = progress.cooldownUntilMs
                  /\ progress'.visitedStationEvents
                       = progress.visitedStationEvents
                  /\ progress'.scoredStationIds = progress.scoredStationIds
                  /\ progress'.penalty = progress.penalty
          /\ (call'.op = "jrAlight" /\ result'.ok)
               => /\ progress'.visitedSpotIds = progress.visitedSpotIds
                  /\ progress'.reachedCpIds = progress.reachedCpIds
          /\ (call'.op = "goalCheckIn" /\ result'.ok)
               => /\ progress'.visitedSpotIds = progress.visitedSpotIds
                  /\ progress'.reachedCpIds = progress.reachedCpIds
                  /\ progress'.scoredStationIds = progress.scoredStationIds
                  /\ progress'.visitedStationEvents
                       = progress.visitedStationEvents
                  /\ progress'.boardedStationId = progress.boardedStationId
                  /\ progress'.score = progress.score - progress'.penalty]_vars

\* The goal was reached on board: J06 was boarded, never alighted, and no
\* station was credited.
C35_Witness ==
  /\ Called(call, "goalCheckIn")
  /\ Succeeded(result)
  /\ progress.boardedStationId = Some("J06")
  /\ Len(progress.visitedStationEvents) = 1
  /\ progress.scoredStationIds = <<>>
  /\ progress.score = 0 - progress.penalty

\* The judge spots that no other judge spot is nearer to p2 than.
NearestSpots(p2) ==
  { k \in 1..Len(world.judgeSpots) :
      \A j \in 1..Len(world.judgeSpots) : SpotDist(p2, k) <= SpotDist(p2, j) }

\* What the drag of marker i to p2 may store for the snapshot p: for a spot
\* nearest to p2 (one of them, when several are as near), p with entry i
\* replaced by its ID when it is within 300 m and is no other checkpoint,
\* and p itself when it is not.
DragOutcome(p, i, p2, q) ==
  \E k \in NearestSpots(p2) :
    LET allowed == /\ SpotDist(p2, k) <= 300 * 300
                   /\ \A idx \in 1..Len(p.cpSpotIds) :
                        idx # i => p.cpSpotIds[idx] # world.judgeSpots[k].ID
    IN q = IF allowed THEN [p EXCEPT !.cpSpotIds[i] = world.judgeSpots[k].ID]
           ELSE p

\* C36: the checkpoint drag replaces exactly one entry of cpSpotIds by the
\* ID of the spot nearest to the drop point, and only when that spot is
\* within 300 m and is not another checkpoint already; otherwise progress is
\* unchanged.  It keeps the length of cpSpotIds and the absence of duplicate
\* IDs in it, and never changes reachedCpIds, visitedSpotIds or score.
C36_CpDrag ==
  [][/\ ~Ended(progress)
          => \A i \in 1..Len(progress.cpSpotIds), p2 \in DragPositions :
               DragOutcome(progress, i, p2,
                           onDragEnd(progress, i, p2, world.judgeSpots))
     /\ Called(call', "cpDrag")
          => /\ \E i \in 1..Len(progress.cpSpotIds), p2 \in DragPositions :
                  DragOutcome(progress, i, p2, progress')
             /\ Len(progress'.cpSpotIds) = Len(progress.cpSpotIds)
             /\ Cardinality({ i \in 1..Len(progress.cpSpotIds) :
                                progress'.cpSpotIds[i] # progress.cpSpotIds[i] })
                  <= 1
             /\ NoDuplicates(progress.cpSpotIds)
                  => NoDuplicates(progress'.cpSpotIds)
             /\ progress'.reachedCpIds = progress.reachedCpIds
             /\ progress'.visitedSpotIds = progress.visitedSpotIds
             /\ progress'.score = progress.score]_vars

\* After S04 was reached as a checkpoint, the marker of the other
\* checkpoint was dropped next to S01 and the second checkpoint became S01.
C36_Witness ==
  /\ Called(call, "cpDrag")
  /\ progress.cpSpotIds = << "S04", "S01" >>
  /\ progress.reachedCpIds = << "S04" >>
  /\ progress.visitedSpotIds = << "S04" >>
  /\ progress.score = 50

\* C37: for every game ended by a goal check-in, the breakdown ResultPage
\* recomputes from the stored snapshot (the time penalty of endedAtMs plus
\* 100 per configured checkpoint missing from reachedCpIds) adds up to the
\* stored penalty that goalCheckIn subtracted from score.
C37_BreakdownMatchesPenalty ==
  progress.endReason = Some("GOAL")
    => LET b == resultPenaltyBreakdown(progress)
       IN b.timePenalty + b.cpPenalty = progress.penalty

\* A game ended early at the goal with a checkpoint missed: the breakdown
\* shows a time penalty and a checkpoint penalty that add up to the penalty.
C37_Witness ==
  /\ progress.endReason = Some("GOAL")
  /\ resultPenaltyBreakdown(progress).timePenalty > 0
  /\ resultPenaltyBreakdown(progress).cpPenalty = 100
  /\ progress.penalty = resultPenaltyBreakdown(progress).timePenalty + 100

\* The clock has passed the planned end of the stored game by more than the
\* grace time.
PastGrace == now > graceEndMs(progress)

\* C38: a game that has not ended and whose clock has passed plannedEnd + 60
\* minutes is eventually ended as ABANDONED, with endedAtMs = now and score
\* and penalty unchanged: on load, by the one-second timer, or when a
\* check-in button is pressed, in which case the handler abandons the game
\* and does not call the engine; and PlayPage accepts no check-in after that
\* instant.
C38_AbandonedAfterGrace ==
  /\ [][/\ (~Ended(progress) /\ progress'.endReason = Some("ABANDONED"))
             => /\ PastGrace
                /\ progress' = [progress EXCEPT
                                  !.endedAtMs = Some(now),
                                  !.endReason = Some("ABANDONED")]
        /\ (/\ ClickStep
            /\ ~Ended(progress)
            /\ PastGrace
            /\ world'.event.outcome \notin { "busy", "offline" })
             => /\ world'.event.outcome = "abandon"
                /\ call' = call
                /\ progress'.endReason = Some("ABANDONED")
        /\ (ExitStep /\ world'.event.kind = "fix" /\ PastGrace)
             => ~result'.ok]_vars
  /\ (~Ended(progress) /\ PastGrace) ~> (progress.endReason = Some("ABANDONED"))

\* A check-in button was pressed past the grace time: the handler abandoned
\* the game, which keeps its score, and the engine was not called.
C38_Witness ==
  /\ world.event # <<>>
  /\ world.event.kind = "click"
  /\ world.event.outcome = "abandon"
  /\ progress.endReason = Some("ABANDONED")
  /\ progress.endedAtMs = Some(now)
  /\ progress.score = 50
  /\ call.t < now

\* The game is in play: PlayPage is shown with its master data loaded.
InPlay(w) == w.page = "/play" /\ w.master

\* C39: an ended game is never resumed into play: HomePage enables and
\* performs resume only for a stored game whose endedAtMs is unset, PlayPage
\* routes a loaded ended game away before it loads the master data, to the
\* result page after GOAL and to home after ABANDONED, and ResultPage shows
\* a game only when it has ended with a reason other than ABANDONED.
C39_EndedNeverResumed ==
  [][/\ world'.wasEnded => ~InPlay(world')
     /\ (world'.event.kind = "home" /\ world'.hasGame) => ~Ended(progress')
     /\ (world'.event.kind = "resume" /\ world'.page = "/play")
          => ~Ended(progress)
     /\ (world'.event.kind = "open" /\ world'.event.route = "/play"
         /\ Ended(progress))
          => /\ ~world'.master
             /\ world'.page = IF progress.endReason = Some("ABANDONED")
                                THEN "/" ELSE "/result"
     /\ Ended(progress') => ~InPlay(world')
     /\ world'.loaded
          => /\ world'.page = "/result"
             /\ Ended(progress')
             /\ progress'.endReason # Some("ABANDONED")]_vars

\* The game was ended by a goal check-in, and later it is in play again: it
\* was resumed from HomePage with endedAtMs unset.
C39_Witness ==
  /\ world.wasEnded
  /\ InPlay(world)
  /\ world.event.kind = "resume"
  /\ ~Ended(progress)
  /\ Called(call, "checkInSpotOrCp")

====
